---- MODULE Spec2Model ----
(***************************************************************************)
(* Archive-status reconciliation and migration engine of the Iconik        *)
(* maintenance scripts.                                                    *)
(*                                                                         *)
(*   tool = "mig" : scripts/archive-assets-to-storage.ts (archiveAsset)    *)
(*   tool = "fix" : scripts/verify-collection-archive-health.ts            *)
(*                  (classifyAsset, applyFixes, main)                      *)
(*                                                                         *)
(* One behaviour is two consecutive invocations (runs) of one tool on the  *)
(* same remote records and the same mounts.  The remote API and the disks  *)
(* are the environment: a request may fail, a copy may throw or leave a    *)
(* file of another size, the process may be killed.  Such faults are       *)
(* counted in faultsIn and bounded by MaxFaults.                           *)
(***************************************************************************)
EXTENDS Integers, Sequences, FiniteSets, TLC

\* ------------------------------------------------------------------ bounds
MaxSize == 2        \* file sizes on disk are 1..MaxSize; 0 is "no such file"
MaxFaults == 1      \* injected faults per behaviour
MaxStack == 12      \* nested scanCollection calls followed by the model

Runs == {1, 2}
Paths == {"p1", "p2", "q"}
Sizes == 0..MaxSize

\* --------------------------------------------------------- static directory
archiveStorageId == "arch"

\* files/v1/storages/<id>/ of the remote system
StorageOf(id) ==
  CASE id = "arch"  -> [name |-> "Vault", purpose |-> "ARCHIVE"]
    [] id = "deep"  -> [name |-> "Deep",  purpose |-> "ARCHIVE"]
    [] OTHER        -> [name |-> "Work",  purpose |-> "FILES"]

NullStorage == [name |-> "null", purpose |-> "null"]

VARIABLES
  tool,             \* which script is invoked
  run,              \* 1 or 2: the invocation in progress
  live,             \* live[r]: --live given to invocation r
  fix,              \* fix[r]: --fix given to invocation r (tool "fix")
  storageNameFilter,\* --storage=<name>, "" when not given (tool "fix")
  pc,               \* position in the script
  faultsIn,         \* faultsIn[r]: faults injected during invocation r
  \* remote records
  assetStatus,      \* item id -> archive_status of the item
  fmtStatus,        \* item id -> (format id -> archive_status)
  remoteFormats,    \* item id -> its formats, in listing order
  remoteFiles,      \* file records: item id -> sequence of records
  remoteFileSets,   \* file-set records of the migrated item
  cascade,          \* whether the remote DELETE of a file set removes its files
  \* disks
  srcDisk,          \* source mount: path -> size (0: absent)
  dstDisk,          \* archive mount: path -> size (0: absent)
  \* process state (module-level)
  storageCache,     \* getStorage's cache: id -> storage or NullStorage
  sourceStorageIds, \* archive-assets-to-storage: ids collected for cleanup
  assetArgs,        \* archive-assets-to-storage: the asset ids given, in order
  idx,              \* main's loop over assetArgs: position of the item in hand
  counts,           \* counts[r]: main's success and errors counters
  attempts,         \* attempts[r]: the items archiveAsset was called on, in order
  \* locals of archiveAsset
  files, fileSets, formats, fileSetId, k,
  \* Phase 1 of the collection scripts
  collectionArgs,   \* the collection ids given, in order
  contents,         \* collection id -> pages of its contents listing
  root,             \* position in collectionArgs of the collection in hand
  stack,            \* the scanCollection calls in progress, innermost last
  results,          \* candidates pushed while scanning the collection in hand
  allNonArchived,   \* verify-collection-archive-health: results of all roots
  \* fix-orphaned-with-sizes-parallel
  assetIds,         \* the asset ids getAllAssets returned, in order
  batchStart,       \* processInBatches' i: start of the window after the one in hand
  task,             \* position in assetIds -> the processAsset call on it
  stats,            \* the Stats object every processAsset call updates
  mortarFiles,      \* asset id -> its file records
  mortarSets,       \* file set id -> status of the file set
  \* process state of verify-collection-archive-health
  unique,           \* deduplicated candidates, each with collectionStatus
  classified,       \* AssetClassification per classified candidate
  totals,           \* totals[r]: what applyFixes returned in invocation r
  \* observation
  result,           \* result[r]: outcome of invocation r
  readLog,          \* readLog[r]: read requests issued, in order
  writeLog,         \* writeLog[r]: writes issued (requests, copies, unlinks)
  hist              \* remote+disk state at the start and after each invocation

vars == <<tool, run, live, fix, storageNameFilter, pc, faultsIn, assetStatus, fmtStatus,
          remoteFormats, remoteFiles, remoteFileSets, cascade, srcDisk, dstDisk,
          storageCache, sourceStorageIds, files, fileSets, formats, fileSetId, k,
          unique, classified, totals, result, readLog, writeLog, hist,
          assetArgs, idx, counts, attempts,
          collectionArgs, contents, root, stack, results, allNonArchived,
          assetIds, batchStart, task, stats, mortarFiles, mortarSets>>

remoteVars == <<assetStatus, fmtStatus, remoteFormats, remoteFiles,
                remoteFileSets, cascade>>
diskVars == <<srcDisk, dstDisk>>
migLocals == <<files, fileSets, formats, fileSetId, k>>
fixVars == <<unique, classified, totals>>
flagVars == <<tool, live, fix, storageNameFilter>>
batchVars == <<assetArgs, idx, counts, attempts>>
scanVars == <<collectionArgs, contents, root, stack, results, allNonArchived>>
parVars == <<assetIds, batchStart, task, stats, mortarFiles, mortarSets>>

World == [asset |-> assetStatus, fmt |-> fmtStatus, recs |-> remoteFiles,
          sets |-> remoteFileSets, src |-> srcDisk, dst |-> dstDisk]

\* ----------------------------------------------------------------- helpers
FirstIdx(S) == IF S = {} THEN 0 ELSE CHOOSE i \in S : \A j \in S : i <= j

RECURSIVE SelectIdx(_, _, _)
\* the indices of s in I, in increasing order (Array.prototype.filter)
SelectIdx(s, I, from) ==
  IF from > Len(s) THEN <<>>
  ELSE IF from \in I THEN <<s[from]>> \o SelectIdx(s, I, from + 1)
  ELSE SelectIdx(s, I, from + 1)

Filter(s, I) == SelectIdx(s, I, 1)

Count(s, P(_)) == Cardinality({i \in DOMAIN s : P(s[i])})

Fault == faultsIn[1] + faultsIn[2] < MaxFaults
Faulted == [faultsIn EXCEPT ![run] = @ + 1]

\* a read request as it is observed: what was asked, and what came back
Req(req, id, resp) == [req |-> req, id |-> id, resp |-> resp]
Read(req, id, resp) == readLog' = [readLog EXCEPT ![run] = Append(@, Req(req, id, resp))]
\* a write as it is observed: the operation, the item, the record, whether it succeeded
Wr(op, item, id, ok) == [op |-> op, item |-> item, id |-> id, ok |-> ok]
Wrote(op, item, id, ok) ==
  writeLog' = [writeLog EXCEPT ![run] = Append(@, Wr(op, item, id, ok))]
\* the invocation ends: what it reported, and where it stopped
\* (of the item MigItem when a batch is migrated; `last` is what the call in
\* hand returned, for main's counters)
Finish(res) ==
  /\ result' = [result EXCEPT ![run] =
                  IF tool = "mig" /\ assetArgs[idx] # "a1"
                    THEN [@ EXCEPT !.last = res]
                    ELSE [ret |-> res, at |-> pc, last |-> res]]
  /\ pc' = IF tool = "mig" /\ res # "crashed" THEN "returned" ELSE "done"

\* mutant: the writes are not guarded
LiveGuard_always == TRUE

\* `if (live)` around every write of both scripts
LiveGuard == live[run]


\* ===================================================================
\* scripts/archive-assets-to-storage.ts
\* ===================================================================
\* the item whose records and files the migration is followed on; the other
\* item of a batch has no formats and no file records
MigItem == "a1"
\* `for (const id of assetArgs)`: the item in hand
Item == assetArgs[idx]
\* GET file_sets of an item
FileSetsOf(item) == IF item = MigItem THEN remoteFileSets ELSE <<>>

NewId(n) == <<"new1", "new2", "new3", "new4">>[n]

\* getStorage(id) on cache `cache`: the cached value, or the outcome of the
\* request, which is what the cache then holds (a failure is cached as null)
\* mutant: a lookup that failed is requested again
Requests_retry(cache, id) == id \notin DOMAIN cache \/ cache[id] = NullStorage
\* `if (storageCache.has(id)) return storageCache.get(id)`: a request is
\* made only for an id the cache does not hold
Requests(cache, id) == id \notin DOMAIN cache

getStorage(cache, id, ok) ==
  IF ~Requests(cache, id) THEN cache[id]
  ELSE IF ok THEN StorageOf(id) ELSE NullStorage

CacheWith(cache, id, ok) ==
  IF ~Requests(cache, id) THEN cache
  ELSE [x \in DOMAIN cache \cup {id} |->
          IF x = id THEN getStorage(cache, id, ok) ELSE cache[x]]

\* mutant: every storage but the destination is taken for a source
IsSourceStorage_notDest(storage, id) == id # archiveStorageId
\* discoverSourceStorages: the test that admits a storage id for cleanup
IsSourceStorage(storage, id) ==
  /\ storage # NullStorage
  /\ storage.purpose # "ARCHIVE"
  /\ id # archiveStorageId

\* formats.find(f => f.name === "ORIGINAL") || formats[0]
originalFormat(fmts) ==
  LET o == FirstIdx({i \in DOMAIN fmts : fmts[i].name = "ORIGINAL"})
  IN IF o # 0 THEN o ELSE IF Len(fmts) > 0 THEN 1 ELSE 0

\* mutants: the lookups of an existing destination record find nothing
archiveFileRecord_none(fl) == 0
archiveFileSet_none(fsl) == 0

archiveFileRecord(fl) ==
  FirstIdx({i \in DOMAIN fl : fl[i].storage_id = archiveStorageId})
archiveFileSet(fsl) ==
  FirstIdx({i \in DOMAIN fsl : fsl[i].storage_id = archiveStorageId})
sourceFile(fl) ==
  FirstIdx({i \in DOMAIN fl : fl[i].storage_id # archiveStorageId})
\* sourceFile || archiveFileRecord || files[0]
refFile(fl) ==
  IF sourceFile(fl) # 0 THEN sourceFile(fl)
  ELSE IF archiveFileRecord(fl) # 0 THEN archiveFileRecord(fl)
  ELSE IF Len(fl) > 0 THEN 1 ELSE 0

\* join(archiveMountPath, dirPath, fileName) / join(sourceMountPath, ...)
archiveDiskPath == files[refFile(files)].path
sourceDiskPath == files[sourceFile(files)].path

\* mutant: the size comparison is dropped
CopyVerified_any(srcSize, dstSize) == TRUE

\* srcSize !== dstSize is the failure
CopyVerified(srcSize, dstSize) == srcSize = dstSize

sourceFileSets == Filter(fileSets, {i \in DOMAIN fileSets :
                                      fileSets[i].storage_id \in sourceStorageIds})
sourceFiles == Filter(files, {i \in DOMAIN files :
                                files[i].storage_id \in sourceStorageIds})

Mig(at) == tool = "mig" /\ pc = at

GetAsset ==
  /\ Mig("asset")
  /\ \/ /\ Read("GET asset", Item, "ok")
        /\ pc' = "files"
        /\ UNCHANGED <<result, faultsIn>>
     \/ /\ Read("GET asset", Item, "error")
        /\ Fault
        /\ faultsIn' = Faulted
        /\ Finish("fatal")
  /\ UNCHANGED <<flagVars, parVars, scanVars, batchVars, run, remoteVars, diskVars, storageCache,
                 sourceStorageIds, migLocals, fixVars, writeLog, hist>>

GetFiles ==
  /\ Mig("files")
  /\ \/ /\ Read("GET files", Item, "ok")
        /\ files' = remoteFiles[Item]
        /\ pc' = "file_sets"
        /\ UNCHANGED <<result, faultsIn>>
     \/ /\ Read("GET files", Item, "error")
        /\ Fault
        /\ faultsIn' = Faulted
        /\ Finish("fatal")
        /\ UNCHANGED files
  /\ UNCHANGED <<flagVars, parVars, scanVars, batchVars, run, remoteVars, diskVars, storageCache,
                 sourceStorageIds, fileSets, formats, fileSetId, k, fixVars,
                 writeLog, hist>>

GetFileSets ==
  /\ Mig("file_sets")
  /\ \/ /\ Read("GET file_sets", Item, "ok")
        /\ fileSets' = FileSetsOf(Item)
        /\ pc' = "formats"
        /\ UNCHANGED <<result, faultsIn>>
     \/ /\ Read("GET file_sets", Item, "error")
        /\ Fault
        /\ faultsIn' = Faulted
        /\ Finish("fatal")
        /\ UNCHANGED fileSets
  /\ UNCHANGED <<flagVars, parVars, scanVars, batchVars, run, remoteVars, diskVars, storageCache,
                 sourceStorageIds, files, formats, fileSetId, k, fixVars,
                 writeLog, hist>>

\* GET formats, then `if (!originalFormat) return false`
GetFormats ==
  /\ Mig("formats")
  /\ \/ /\ Read("GET formats", Item, "ok")
        /\ formats' = remoteFormats[Item]
        /\ IF originalFormat(remoteFormats[Item]) = 0
             THEN Finish("false") /\ UNCHANGED k
             ELSE pc' = "discover" /\ k' = 1 /\ UNCHANGED result
        /\ UNCHANGED faultsIn
     \/ /\ Read("GET formats", Item, "error")
        /\ Fault
        /\ faultsIn' = Faulted
        /\ Finish("fatal")
        /\ UNCHANGED <<formats, k>>
  /\ UNCHANGED <<flagVars, parVars, scanVars, batchVars, run, remoteVars, diskVars, storageCache,
                 sourceStorageIds, files, fileSets, fileSetId, fixVars,
                 writeLog, hist>>

\* one iteration of discoverSourceStorages(files)
DiscoverSourceStorages ==
  /\ Mig("discover")
  /\ k <= Len(files)
  /\ LET id == files[k].storage_id IN
     \E ok \in BOOLEAN :
       /\ (~ok) => (id \notin DOMAIN storageCache /\ Fault)
       /\ (id \in DOMAIN storageCache) => ok
       /\ faultsIn' = IF ok THEN faultsIn ELSE Faulted
       /\ storageCache' = CacheWith(storageCache, id, ok)
       /\ readLog' = IF ~Requests(storageCache, id) THEN readLog
                     ELSE [readLog EXCEPT ![run] =
                             Append(@, Req("GET storage", id, IF ok THEN "ok" ELSE "error"))]
       /\ sourceStorageIds' =
            IF IsSourceStorage(getStorage(storageCache, id, ok), id)
              THEN sourceStorageIds \cup {id} ELSE sourceStorageIds
  /\ k' = k + 1
  /\ UNCHANGED <<flagVars, parVars, scanVars, batchVars, run, pc, remoteVars, diskVars, files, fileSets,
                 formats, fileSetId, fixVars, result, writeLog, hist>>

\* `if (!refFile) return false`
LocateReference ==
  /\ Mig("discover")
  /\ k > Len(files)
  /\ IF refFile(files) = 0
       THEN Finish("false")
       ELSE pc' = "step1" /\ UNCHANGED result
  /\ UNCHANGED <<flagVars, parVars, scanVars, batchVars, run, faultsIn, remoteVars, diskVars, storageCache,
                 sourceStorageIds, migLocals, fixVars, readLog, writeLog, hist>>

\* Step 1: existsSync(archiveDiskPath) / existsSync(sourceDiskPath) / copyFileSync
EnsureOnArchiveDisk ==
  /\ Mig("step1")
  /\ IF dstDisk[archiveDiskPath] > 0
       THEN /\ pc' = "step2"
            /\ UNCHANGED <<dstDisk, result, faultsIn, writeLog>>
     ELSE IF sourceFile(files) # 0 /\ srcDisk[sourceDiskPath] > 0
       THEN IF LiveGuard
              THEN \/ \* the copy is complete
                      /\ dstDisk' = [dstDisk EXCEPT ![archiveDiskPath] =
                                       srcDisk[sourceDiskPath]]
                      /\ Wrote("copy", Item, archiveDiskPath, TRUE)
                      /\ pc' = "verify"
                      /\ UNCHANGED <<result, faultsIn>>
                   \/ \* the copy leaves a file of another size
                      /\ Fault
                      /\ \E sz \in (1..MaxSize) \ {srcDisk[sourceDiskPath]} :
                           dstDisk' = [dstDisk EXCEPT ![archiveDiskPath] = sz]
                      /\ faultsIn' = Faulted
                      /\ Wrote("copy", Item, archiveDiskPath, TRUE)
                      /\ pc' = "verify"
                      /\ UNCHANGED result
                   \/ \* copyFileSync throws, nothing is left behind
                      /\ Fault
                      /\ faultsIn' = Faulted
                      /\ Wrote("copy", Item, archiveDiskPath, FALSE)
                      /\ Finish("fatal")
                      /\ UNCHANGED dstDisk
              ELSE /\ pc' = "step2"
                   /\ UNCHANGED <<dstDisk, result, faultsIn, writeLog>>
     ELSE /\ Finish("false")
          /\ UNCHANGED <<dstDisk, faultsIn, writeLog>>
  /\ UNCHANGED <<flagVars, parVars, scanVars, batchVars, run, remoteVars, srcDisk, storageCache,
                 sourceStorageIds, migLocals, fixVars, readLog, hist>>

\* statSync both, `if (srcSize !== dstSize) return false`
VerifyCopy ==
  /\ Mig("verify")
  /\ IF CopyVerified(srcDisk[sourceDiskPath], dstDisk[archiveDiskPath])
       THEN pc' = "step2" /\ UNCHANGED result
       ELSE Finish("false")
  /\ UNCHANGED <<flagVars, parVars, scanVars, batchVars, run, faultsIn, remoteVars, diskVars, storageCache,
                 sourceStorageIds, migLocals, fixVars, readLog, writeLog, hist>>


\* mutant: the components are looked up only when the file set will be created
LooksUpComponents_live == live[run]

\* the components request of step 2 is outside `if (live)`
LooksUpComponents == TRUE

\* Step 2: reuse the archive file set, or look up the components
EnsureFileSet ==
  /\ Mig("step2")
  /\ IF archiveFileSet(fileSets) # 0
       THEN /\ fileSetId' = fileSets[archiveFileSet(fileSets)].id
            /\ pc' = "step3"
            /\ UNCHANGED <<readLog, faultsIn>>
       ELSE /\ IF LooksUpComponents
                 THEN \/ Read("GET components", Item, "ok") /\ UNCHANGED faultsIn
                      \/ /\ Read("GET components", Item, "error")  \* caught
                         /\ Fault
                         /\ faultsIn' = Faulted
                 ELSE UNCHANGED <<readLog, faultsIn>>
            /\ pc' = "post_fs"
            /\ UNCHANGED fileSetId
  /\ UNCHANGED <<flagVars, parVars, scanVars, batchVars, run, remoteVars, diskVars, storageCache,
                 sourceStorageIds, files, fileSets, formats, k, fixVars,
                 result, writeLog, hist>>

\* POST file_sets/ (live) or fileSetId = "(dry-run)"
CreateFileSet ==
  /\ Mig("post_fs")
  /\ IF LiveGuard
       THEN \/ /\ remoteFileSets' =
                    IF Item = MigItem
                      THEN Append(remoteFileSets,
                                  [id |-> NewId(Len(remoteFileSets) + 1),
                                   storage_id |-> archiveStorageId])
                      ELSE remoteFileSets
               /\ fileSetId' = NewId(Len(remoteFileSets) + 1)
               /\ Wrote("POST file_set", Item, archiveStorageId, TRUE)
               /\ pc' = "step3"
               /\ UNCHANGED <<result, faultsIn>>
            \/ /\ Fault
               /\ faultsIn' = Faulted
               /\ Wrote("POST file_set", Item, archiveStorageId, FALSE)
               /\ Finish("fatal")
               /\ UNCHANGED <<remoteFileSets, fileSetId>>
       ELSE /\ fileSetId' = "(dry-run)"
            /\ pc' = "step3"
            /\ UNCHANGED <<remoteFileSets, result, faultsIn, writeLog>>
  /\ UNCHANGED <<flagVars, parVars, scanVars, batchVars, run, assetStatus, fmtStatus, remoteFormats,
                 remoteFiles, cascade, diskVars, storageCache, sourceStorageIds,
                 files, fileSets, formats, k, fixVars, readLog, hist>>

\* existsSync(archiveDiskPath) ? statSync(...).size : sourceFile?.size || 0
fileSize ==
  IF dstDisk[archiveDiskPath] > 0 THEN dstDisk[archiveDiskPath]
  ELSE IF sourceFile(files) # 0 THEN files[sourceFile(files)].size ELSE 0

\* Step 3: reuse the archive file record, or POST files/
EnsureFileRecord ==
  /\ Mig("step3")
  /\ IF archiveFileRecord(files) # 0 \/ ~LiveGuard
       THEN /\ pc' = "step4"
            /\ UNCHANGED <<remoteFiles, result, faultsIn, writeLog>>
       ELSE \/ /\ remoteFiles' = [remoteFiles EXCEPT ![Item] = Append(@,
                    [id |-> NewId(Len(@) + 1), storage_id |-> archiveStorageId,
                     path |-> archiveDiskPath, size |-> fileSize,
                     status |-> "CLOSED"])]
               /\ Wrote("POST file", Item, archiveStorageId, TRUE)
               /\ pc' = "step4"
               /\ UNCHANGED <<result, faultsIn>>
            \/ /\ Fault
               /\ faultsIn' = Faulted
               /\ Wrote("POST file", Item, archiveStorageId, FALSE)
               /\ Finish("fatal")
               /\ UNCHANGED remoteFiles
  /\ UNCHANGED <<flagVars, parVars, scanVars, batchVars, run, assetStatus, fmtStatus, remoteFormats,
                 remoteFileSets, cascade, diskVars, storageCache,
                 sourceStorageIds, migLocals, fixVars, readLog, hist>>

\* Step 4: PATCH the asset to ARCHIVED
PatchAsset ==
  /\ Mig("step4")
  /\ IF LiveGuard
       THEN \/ /\ assetStatus' = [assetStatus EXCEPT ![Item] = "ARCHIVED"]
               /\ Wrote("PATCH asset", Item, Item, TRUE)
               /\ pc' = "step4f"
               /\ UNCHANGED <<result, faultsIn>>
            \/ /\ Fault
               /\ faultsIn' = Faulted
               /\ Wrote("PATCH asset", Item, Item, FALSE)
               /\ Finish("fatal")
               /\ UNCHANGED assetStatus
       ELSE /\ pc' = "step5"
            /\ UNCHANGED <<assetStatus, result, faultsIn, writeLog>>
  /\ k' = 1
  /\ UNCHANGED <<flagVars, parVars, scanVars, batchVars, run, fmtStatus, remoteFormats, remoteFiles,
                 remoteFileSets, cascade, diskVars, storageCache,
                 sourceStorageIds, files, fileSets, formats, fileSetId, fixVars,
                 readLog, hist>>

\* mutant: a failed format PATCH is caught and logged
FormatPatchFailure_warn == "warn"

\* what a failed format PATCH of step 4 does to the run: it is not caught
FormatPatchFailure == "fatal"

\* Step 4: `for (const fmt of formats)` PATCH the format to ARCHIVED
PatchFormat ==
  /\ Mig("step4f")
  /\ IF k <= Len(formats)
       THEN \/ /\ fmtStatus' = [fmtStatus EXCEPT ![Item][formats[k].id] = "ARCHIVED"]
               /\ Wrote("PATCH format", Item, formats[k].id, TRUE)
               /\ k' = k + 1
               /\ UNCHANGED <<pc, result, faultsIn>>
            \/ /\ Fault
               /\ faultsIn' = Faulted
               /\ Wrote("PATCH format", Item, formats[k].id, FALSE)
               /\ IF FormatPatchFailure = "fatal"
                    THEN Finish("fatal") /\ UNCHANGED k
                    ELSE k' = k + 1 /\ UNCHANGED <<pc, result>>
               /\ UNCHANGED fmtStatus
       ELSE /\ pc' = "step5"
            /\ k' = 1
            /\ UNCHANGED <<fmtStatus, result, faultsIn, writeLog>>
  /\ UNCHANGED <<flagVars, parVars, scanVars, batchVars, run, assetStatus, remoteFormats, remoteFiles,
                 remoteFileSets, cascade, diskVars, storageCache,
                 sourceStorageIds, files, fileSets, formats, fileSetId, fixVars,
                 readLog, hist>>

\* the remote system's DELETE of a file set
DeleteFileSet(sets, fs) == Filter(sets, {i \in DOMAIN sets : sets[i].id # fs.id})
DeleteFilesOf(recs, fs) ==
  IF cascade THEN Filter(recs, {i \in DOMAIN recs : recs[i].storage_id # fs.storage_id})
  ELSE recs

\* Step 5: `for (const fs of sourceFileSets)` DELETE, a failure is a warning
DeleteSourceFileSet ==
  /\ Mig("step5")
  /\ IF k <= Len(sourceFileSets)
       THEN /\ LET fs == sourceFileSets[k] IN
               IF LiveGuard
                 THEN \/ /\ remoteFileSets' = DeleteFileSet(remoteFileSets, fs)
                         /\ remoteFiles' = [remoteFiles EXCEPT ![Item] =
                                              DeleteFilesOf(@, fs)]
                         /\ Wrote("DELETE file_set", Item, fs.id, TRUE)
                         /\ UNCHANGED faultsIn
                      \/ /\ Fault
                         /\ faultsIn' = Faulted
                         /\ Wrote("DELETE file_set", Item, fs.id, FALSE)
                         /\ UNCHANGED <<remoteFileSets, remoteFiles>>
                 ELSE UNCHANGED <<remoteFileSets, remoteFiles, faultsIn, writeLog>>
            /\ k' = k + 1
            /\ UNCHANGED pc
       ELSE /\ pc' = "step6"
            /\ k' = 1
            /\ UNCHANGED <<remoteFileSets, remoteFiles, faultsIn, writeLog>>
  /\ UNCHANGED <<flagVars, parVars, scanVars, batchVars, run, assetStatus, fmtStatus, remoteFormats, cascade,
                 diskVars, storageCache, sourceStorageIds, files, fileSets,
                 formats, fileSetId, fixVars, result, readLog, hist>>

\* Step 6: `for (const f of sourceFiles)` existsSync, unlinkSync, then `return true`
DeleteSourceFile ==
  /\ Mig("step6")
  /\ IF k <= Len(sourceFiles)
       THEN LET filePath == sourceFiles[k].path IN
            IF srcDisk[filePath] > 0 /\ LiveGuard
              THEN \/ /\ srcDisk' = [srcDisk EXCEPT ![filePath] = 0]
                      /\ Wrote("unlink", Item, filePath, TRUE)
                      /\ k' = k + 1
                      /\ UNCHANGED <<pc, result, faultsIn>>
                   \/ /\ Fault                     \* unlinkSync throws
                      /\ faultsIn' = Faulted
                      /\ Wrote("unlink", Item, filePath, FALSE)
                      /\ Finish("fatal")
                      /\ UNCHANGED <<srcDisk, k>>
              ELSE /\ k' = k + 1
                   /\ UNCHANGED <<srcDisk, pc, result, faultsIn, writeLog>>
       ELSE /\ Finish("true")
            /\ UNCHANGED <<srcDisk, k, faultsIn, writeLog>>
  /\ UNCHANGED <<flagVars, parVars, scanVars, batchVars, run, remoteVars, dstDisk, storageCache,
                 sourceStorageIds, files, fileSets, formats, fileSetId, fixVars,
                 readLog, hist>>

\* the process is killed in the middle of archiveAsset
Crash ==
  /\ tool = "mig"
  /\ pc \notin {"done", "returned"}
  /\ LiveGuard
  /\ Fault
  /\ faultsIn' = Faulted
  /\ Finish("crashed")
  /\ UNCHANGED <<flagVars, parVars, scanVars, batchVars, run, remoteVars, diskVars, storageCache,
                 sourceStorageIds, migLocals, fixVars, readLog, writeLog, hist>>

\* main() of archive-assets-to-storage: the cache after getStorage(archiveStorageId)
MigCache == [x \in {archiveStorageId} |-> StorageOf(archiveStorageId)]

NoTotals == [totalFixed |-> 0, totalReset |-> 0, totalErrors |-> 0]
EmptyCache == [x \in {} |-> NullStorage]

\* the next invocation of the script: a new process on the same records and
\* disks (the container listing that produced `unique` is unchanged)
NextRun ==
  /\ pc = "done"
  /\ run = 1
  /\ tool # "orphans"
  /\ run' = 2
  /\ pc' = IF tool = "mig" THEN "asset"
           ELSE IF collectionArgs = <<>> THEN "classify" ELSE "scan_root"
  /\ storageCache' = IF tool = "mig" THEN MigCache ELSE EmptyCache
  /\ classified' = <<>>
  /\ sourceStorageIds' = {}
  /\ files' = <<>>
  /\ fileSets' = <<>>
  /\ formats' = <<>>
  /\ fileSetId' = ""
  /\ k' = 1
  /\ hist' = Append(hist, World)
  /\ idx' = 1
  /\ attempts' = IF tool = "mig" THEN [attempts EXCEPT ![2] = <<assetArgs[1]>>]
                  ELSE attempts
  /\ unique' = IF collectionArgs = <<>> THEN unique ELSE <<>>
  /\ root' = 1
  /\ stack' = <<>>
  /\ results' = <<>>
  /\ allNonArchived' = <<>>
  /\ UNCHANGED <<flagVars, parVars, collectionArgs, contents, assetArgs, counts, faultsIn,
                 remoteVars, diskVars, totals, result, readLog, writeLog>>

\* mutant: an item that throws ends the batch
AfterItem_abort(res) == IF res = "fatal" THEN "stop" ELSE "next"

\* main's try/catch around archiveAsset: whatever the call did, the loop goes on
AfterItem(res) == "next"

\* main: `if (await archiveAsset(id)) success++; else errors++;` and
\* `catch { errors++ }`, then the call on the next id, or the summary
MainLoop ==
  /\ Mig("returned")
  /\ counts' = [counts EXCEPT ![run] =
                  IF result[run].last = "true"
                    THEN [@ EXCEPT !.success = @ + 1]
                    ELSE [@ EXCEPT !.errors = @ + 1]]
  /\ IF idx < Len(assetArgs) /\ AfterItem(result[run].last) = "next"
       THEN /\ idx' = idx + 1
            /\ attempts' = [attempts EXCEPT ![run] = Append(@, assetArgs[idx + 1])]
            /\ pc' = "asset"
       ELSE /\ pc' = "done"
            /\ UNCHANGED <<idx, attempts>>
  /\ files' = <<>>
  /\ fileSets' = <<>>
  /\ formats' = <<>>
  /\ fileSetId' = ""
  /\ k' = 1
  /\ UNCHANGED <<flagVars, parVars, scanVars, assetArgs, run, faultsIn, remoteVars, diskVars,
                 storageCache, sourceStorageIds, fixVars, result, readLog,
                 writeLog, hist>>

MigNext ==
  \/ GetAsset \/ GetFiles \/ GetFileSets \/ GetFormats
  \/ DiscoverSourceStorages \/ LocateReference
  \/ EnsureOnArchiveDisk \/ VerifyCopy
  \/ EnsureFileSet \/ CreateFileSet \/ EnsureFileRecord
  \/ PatchAsset \/ PatchFormat
  \/ DeleteSourceFileSet \/ DeleteSourceFile
  \/ MainLoop \/ Crash \/ NextRun


\* ===================================================================
\* scripts/verify-collection-archive-health.ts
\* ===================================================================
isTargetArchiveStorage(storage) ==
  /\ storage # NullStorage
  /\ storage.purpose = "ARCHIVE"
  /\ (storageNameFilter # "" => storage.name = storageNameFilter)

RECURSIVE ResolveAll(_, _, _)
\* the getStorage calls of classifyAsset's loop over the files, on cache
\* `cache`; the ids in stFail fail when requested
ResolveAll(fl, cache, stFail) ==
  IF fl = <<>> THEN [cache |-> cache, reads |-> <<>>]
  ELSE LET id == Head(fl).storage_id
           ok == id \notin stFail
           rest == ResolveAll(Tail(fl), CacheWith(cache, id, ok), stFail)
       IN [cache |-> rest.cache,
           reads |-> (IF ~Requests(cache, id) THEN <<>>
                      ELSE <<Req("GET storage", id, IF ok THEN "ok" ELSE "error")>>)
                     \o rest.reads]

Ids(s) == [i \in DOMAIN s |-> s[i].id]

\* mutant: the status is looked at before the placements
Classify_statusFirst(realStatus, onArchive, archiveFileExists) ==
  IF realStatus \in {"FAILED_TO_ARCHIVE", "ARCHIVING"} THEN "reset_failed"
  ELSE IF onArchive /\ archiveFileExists THEN "fix_metadata"
  ELSE "skip"

\* the decision at the end of classifyAsset
Classify(realStatus, onArchive, archiveFileExists) ==
  IF onArchive /\ archiveFileExists THEN "fix_metadata"
  ELSE IF realStatus \in {"FAILED_TO_ARCHIVE", "ARCHIVING"} THEN "reset_failed"
  ELSE "skip"

\* mutant: a MISSING placement is collected only when its own file is on the mount
NeedsClose_onDisk(f) == f.status = "MISSING" /\ dstDisk[f.path] > 0

\* `if (f.status === "MISSING") result.fileUpdates.push(...)`
NeedsClose(f) == f.status = "MISSING"

\* classifyAsset(asset) when the asset, files and formats requests succeed as
\* o.a, o.f, o.m say and the storage requests of o.st fail; `early` is the
\* return on ARCHIVED, `status` is the status the decision is taken on
ClassifyWith(asset, o, early, status) ==
  LET base == [id |-> asset.id, collectionStatus |-> asset.collectionStatus,
               realStatus |-> "FETCH_ERROR", onArchive |-> FALSE,
               archiveFileExists |-> FALSE, storages |-> <<>>,
               action |-> "skip", formatIds |-> <<>>, fileUpdates |-> <<>>]
      real == assetStatus[asset.id]
      fl == IF o.f THEN remoteFiles[asset.id] ELSE <<>>
      res == ResolveAll(fl, storageCache, o.st)
      target == {i \in DOMAIN fl : isTargetArchiveStorage(res.cache[fl[i].storage_id])}
      exists == \E i \in target : dstDisk[fl[i].path] > 0
      fmts == IF o.m THEN remoteFormats[asset.id] ELSE <<>>
      pending == {i \in DOMAIN fmts : fmtStatus[asset.id][fmts[i].id] # "ARCHIVED"}
  IN IF ~o.a
       THEN [result |-> base, cache |-> storageCache,
             reads |-> <<Req("GET asset", asset.id, "error")>>]
     ELSE IF early /\ real = "ARCHIVED"
       THEN [result |-> [base EXCEPT !.realStatus = real, !.action = "stale_cache"],
             cache |-> storageCache,
             reads |-> <<Req("GET asset", asset.id, real)>>]
     ELSE [result |-> [base EXCEPT
                         !.realStatus = real,
                         !.onArchive = (target # {}),
                         !.archiveFileExists = exists,
                         !.storages = [i \in DOMAIN fl |->
                                         <<res.cache[fl[i].storage_id], fl[i].status>>],
                         !.fileUpdates = Ids(Filter(fl, {i \in target :
                                                          NeedsClose(fl[i])})),
                         !.formatIds = Ids(Filter(fmts, pending)),
                         !.action = Classify(status, target # {}, exists)],
           cache |-> res.cache,
           reads |-> <<Req("GET asset", asset.id, real)>>
                     \o <<Req("GET files", asset.id, IF o.f THEN "ok" ELSE "error")>>
                     \o res.reads
                     \o <<Req("GET formats", asset.id, IF o.m THEN "ok" ELSE "error")>>]

\* mutants: no early return on ARCHIVED; the decision taken on the status
\* seen in the collection listing
classifyAsset_late(asset, o) == ClassifyWith(asset, o, FALSE, assetStatus[asset.id])
classifyAsset_listed(asset, o) == ClassifyWith(asset, o, TRUE, asset.collectionStatus)

\* mutant: a failed files or formats request leaves the item undecided
classifyAsset_strict(asset, o) ==
  LET c == ClassifyWith(asset, o, TRUE, assetStatus[asset.id])
  IN IF o.f /\ o.m THEN c ELSE [c EXCEPT !.result.action = "skip"]

classifyAsset(asset, o) == ClassifyWith(asset, o, TRUE, assetStatus[asset.id])

StorageIdsOf(fl) == {fl[i].storage_id : i \in DOMAIN fl}
B2N(b) == IF b THEN 0 ELSE 1
NFail(o) == B2N(o.a) + B2N(o.f) + B2N(o.m) + Cardinality(o.st)

\* the ways the requests of classifyAsset(asset) can fail
Outcomes(asset) ==
  {o \in [a : BOOLEAN, f : BOOLEAN, m : BOOLEAN,
          st : SUBSET StorageIdsOf(remoteFiles[asset.id])] :
     /\ (~o.a \/ assetStatus[asset.id] = "ARCHIVED") => (o.f /\ o.m)
     /\ (~o.a \/ assetStatus[asset.id] = "ARCHIVED" \/ ~o.f) => o.st = {}
     /\ o.st \cap DOMAIN storageCache = {}
     /\ faultsIn[1] + faultsIn[2] + NFail(o) <= MaxFaults}

Fix(at) == tool = "fix" /\ pc = at

\* Phase 2 of main: classified.push(await classifyAsset(unique[i]))
ClassifyAsset ==
  /\ Fix("classify")
  /\ Len(classified) < Len(unique)
  /\ \E o \in Outcomes(unique[Len(classified) + 1]) :
       LET c == classifyAsset(unique[Len(classified) + 1], o) IN
       /\ classified' = Append(classified, c.result)
       /\ storageCache' = c.cache
       /\ readLog' = [readLog EXCEPT ![run] = @ \o c.reads]
       /\ faultsIn' = [faultsIn EXCEPT ![run] = @ + NFail(o)]
  /\ UNCHANGED <<flagVars, parVars, scanVars, batchVars, run, pc, remoteVars, diskVars, sourceStorageIds,
                 migLocals, unique, totals, result, writeLog, hist>>

WithAction(cl, acts) == Filter(cl, {i \in DOMAIN cl : cl[i].action \in acts})

\* mutant: applyFixes also takes the stale_cache items for fixing
fixMetadataOf_stale(cl) == WithAction(cl, {"fix_metadata", "stale_cache"})

\* classified.filter(a => a.action === "fix_metadata") / "reset_failed"
fixMetadataOf(cl) == WithAction(cl, {"fix_metadata"})
resetFailedOf(cl) == WithAction(cl, {"reset_failed"})

\* Phase 3 of main: `if (fix && (fixMetadata.length > 0 || resetFailed.length > 0))`
MainPhase3 ==
  /\ Fix("classify")
  /\ Len(classified) = Len(unique)
  /\ IF fix[run] /\ (Len(WithAction(classified, {"fix_metadata"})) > 0
                     \/ Len(WithAction(classified, {"reset_failed"})) > 0)
       THEN pc' = "fix_metadata" /\ k' = 1 /\ UNCHANGED result
       ELSE Finish("reported") /\ UNCHANGED k
  /\ UNCHANGED <<flagVars, parVars, scanVars, batchVars, run, faultsIn, remoteVars, diskVars, storageCache,
                 sourceStorageIds, files, fileSets, formats, fileSetId, fixVars,
                 readLog, writeLog, hist>>

Patches(op, item, ids, failed) ==
  [i \in DOMAIN ids |-> Wr(op, item, ids[i], ids[i] \notin failed)]

\* mutant: the first failed format or file PATCH ends the asset's sub-steps
RECURSIVE UpTo(_)
UpTo(ws) == IF ws = <<>> THEN <<>>
            ELSE IF ~Head(ws).ok THEN <<Head(ws)>>
            ELSE <<Head(ws)>> \o UpTo(Tail(ws))
FixMetadataWrites_abort(c, failed) ==
  UpTo(<<Wr("PATCH asset", c.id, c.id, c.id \notin failed)>>
       \o Patches("PATCH format", c.id, c.formatIds, failed)
       \o Patches("PATCH file", c.id, c.fileUpdates, failed))

\* the requests of one iteration of applyFixes' fix_metadata loop, live; the
\* PATCHes of the records named in `failed` fail.  A failed asset PATCH
\* leaves the outer try; a failed format or file PATCH is caught in place.
FixMetadataWrites(c, failed) ==
  IF c.id \in failed
    THEN <<Wr("PATCH asset", c.id, c.id, FALSE)>>
    ELSE <<Wr("PATCH asset", c.id, c.id, TRUE)>>
         \o Patches("PATCH format", c.id, c.formatIds, failed)
         \o Patches("PATCH file", c.id, c.fileUpdates, failed)

\* the requests of one iteration of the reset_failed loop, live
ResetFailedWrites(c, failed) ==
  IF c.id \in failed
    THEN <<Wr("PATCH asset", c.id, c.id, FALSE)>>
    ELSE <<Wr("PATCH asset", c.id, c.id, TRUE)>>
         \o Patches("PATCH format", c.id, c.formatIds, failed)

SubSteps(c) == {c.id} \cup {c.formatIds[i] : i \in DOMAIN c.formatIds}
                      \cup {c.fileUpdates[i] : i \in DOMAIN c.fileUpdates}

\* the ways the PATCHes of one classified asset can fail
FailSets(c) ==
  {F \in SUBSET SubSteps(c) :
     /\ c.id \in F => F = {c.id}
     /\ faultsIn[1] + faultsIn[2] + Cardinality(F) <= MaxFaults}

OkIds(ws, op) == {ws[i].id : i \in {j \in DOMAIN ws : ws[j].op = op /\ ws[j].ok}}
Failures(ws) == Cardinality({i \in DOMAIN ws : ~ws[i].ok})

\* the remote system's PATCHes: the status `to` on the item and formats
\* patched, CLOSED on the file records patched
Patched(ws, item, to) ==
  /\ assetStatus' = IF OkIds(ws, "PATCH asset") # {}
                      THEN [assetStatus EXCEPT ![item] = to] ELSE assetStatus
  /\ fmtStatus' = [fmtStatus EXCEPT ![item] =
                     [f \in DOMAIN @ |-> IF f \in OkIds(ws, "PATCH format")
                                           THEN to ELSE @[f]]]
  /\ remoteFiles' = [remoteFiles EXCEPT ![item] =
                       [i \in DOMAIN @ |-> IF @[i].id \in OkIds(ws, "PATCH file")
                                             THEN [@[i] EXCEPT !.status = "CLOSED"]
                                             ELSE @[i]]]

\* applyFixes: one iteration of `for (const asset of fixMetadata)`
FixMetadata ==
  /\ Fix("fix_metadata")
  /\ IF k <= Len(fixMetadataOf(classified))
       THEN LET c == fixMetadataOf(classified)[k] IN
            /\ IF LiveGuard
                 THEN \E failed \in FailSets(c) :
                        LET ws == FixMetadataWrites(c, failed) IN
                        /\ Patched(ws, c.id, "ARCHIVED")
                        /\ writeLog' = [writeLog EXCEPT ![run] = @ \o ws]
                        /\ faultsIn' = [faultsIn EXCEPT ![run] = @ + Failures(ws)]
                        /\ totals' = [totals EXCEPT
                             ![run].totalFixed = @ + (IF ws[1].ok THEN 1 ELSE 0),
                             ![run].totalErrors = @ + Failures(ws)]
                 ELSE /\ totals' = [totals EXCEPT ![run].totalFixed = @ + 1]
                      /\ UNCHANGED <<assetStatus, fmtStatus, remoteFiles,
                                     writeLog, faultsIn>>
            /\ k' = k + 1
            /\ UNCHANGED pc
       ELSE /\ pc' = "reset_failed"
            /\ k' = 1
            /\ UNCHANGED <<assetStatus, fmtStatus, remoteFiles, writeLog,
                           faultsIn, totals>>
  /\ UNCHANGED <<flagVars, parVars, scanVars, batchVars, run, remoteFormats, remoteFileSets, cascade, diskVars,
                 storageCache, sourceStorageIds, files, fileSets, formats,
                 fileSetId, unique, classified, result, readLog, hist>>

\* applyFixes: one iteration of `for (const asset of resetFailed)`, and the return
ResetFailed ==
  /\ Fix("reset_failed")
  /\ IF k <= Len(resetFailedOf(classified))
       THEN LET c == resetFailedOf(classified)[k] IN
            /\ IF LiveGuard
                 THEN \E failed \in FailSets([c EXCEPT !.fileUpdates = <<>>]) :
                        LET ws == ResetFailedWrites(c, failed) IN
                        /\ Patched(ws, c.id, "NOT_ARCHIVED")
                        /\ writeLog' = [writeLog EXCEPT ![run] = @ \o ws]
                        /\ faultsIn' = [faultsIn EXCEPT ![run] = @ + Failures(ws)]
                        /\ totals' = [totals EXCEPT
                             ![run].totalReset = @ + (IF ws[1].ok THEN 1 ELSE 0),
                             ![run].totalErrors = @ + Failures(ws)]
                 ELSE /\ totals' = [totals EXCEPT ![run].totalReset = @ + 1]
                      /\ UNCHANGED <<assetStatus, fmtStatus, remoteFiles,
                                     writeLog, faultsIn>>
            /\ k' = k + 1
            /\ UNCHANGED <<pc, result>>
       ELSE /\ Finish("fixed")
            /\ UNCHANGED <<assetStatus, fmtStatus, remoteFiles, writeLog,
                           faultsIn, totals, k>>
  /\ UNCHANGED <<flagVars, parVars, scanVars, batchVars, run, remoteFormats, remoteFileSets, cascade, diskVars,
                 storageCache, sourceStorageIds, files, fileSets, formats,
                 fileSetId, unique, classified, readLog, hist>>

FixNext == ClassifyAsset \/ MainPhase3 \/ FixMetadata \/ ResetFailed \/ NextRun

\* -------------------------------------------------------------------
\* Phase 1 of verify-collection-archive-health and of
\* fix-collection-archive-status: the scan of the collections given
\* -------------------------------------------------------------------
Scanning(at) == tool \in {"fix", "fixcoll"} /\ pc = at

\* the request names of GET collections/{id}/contents?page=N
PageReq(page) == IF page = 1 THEN "GET contents 1"
                 ELSE IF page = 2 THEN "GET contents 2" ELSE "GET contents 3+"

\* resp.objects and resp.pages of a contents page
PageOf(coll, page) == IF page <= Len(contents[coll]) THEN contents[coll][page] ELSE <<>>
PagesOf(coll) == Len(contents[coll])

\* a call of scanCollection(collId, ...): page = 1, nothing requested yet
Frame(coll) == [coll |-> coll, page |-> 1, i |-> 1, loaded |-> FALSE]
Top == stack[Len(stack)]
Pop == SubSeq(stack, 1, Len(stack) - 1)
SetTop(f) == [stack EXCEPT ![Len(stack)] = f]

\* mutant: a failed page request ends the scan of the whole root
OnPageFailure_abort == <<>>
\* scanCollection: `catch { return; }` ends the call in hand only
OnPageFailure == Pop

\* main, `for (const collArg of collectionArgs)`: the collection's title is
\* looked up (a failure is caught), `results` starts empty, and
\* scanCollection is called on the root
ScanRoot ==
  /\ Scanning("scan_root")
  /\ root <= Len(collectionArgs)
  /\ \/ /\ Read("GET collection", collectionArgs[root], "ok")
        /\ UNCHANGED faultsIn
     \/ /\ Fault
        /\ Read("GET collection", collectionArgs[root], "error")
        /\ faultsIn' = Faulted
  /\ results' = <<>>
  /\ stack' = <<Frame(collectionArgs[root])>>
  /\ pc' = "scan"
  /\ UNCHANGED <<flagVars, parVars, batchVars, collectionArgs, contents, root, allNonArchived,
                 run, remoteVars, diskVars, storageCache, sourceStorageIds,
                 migLocals, fixVars, result, writeLog, hist>>

\* scanCollection: the request of the page in hand; on a failure the call returns
ScanPage ==
  /\ Scanning("scan")
  /\ stack # <<>>
  /\ ~Top.loaded
  /\ \/ /\ Read(PageReq(Top.page), Top.coll, "ok")
        /\ stack' = SetTop([Top EXCEPT !.loaded = TRUE, !.i = 1])
        /\ UNCHANGED faultsIn
     \/ /\ Fault
        /\ Read(PageReq(Top.page), Top.coll, "error")
        /\ stack' = OnPageFailure
        /\ faultsIn' = Faulted
  /\ UNCHANGED <<flagVars, parVars, batchVars, collectionArgs, contents, root, results,
                 allNonArchived, run, pc, remoteVars, diskVars, storageCache,
                 sourceStorageIds, migLocals, fixVars, result, writeLog, hist>>

\* `const status = item.archive_status || "UNKNOWN"` ("" is a listing
\* without the field)
ListedStatus(item) == IF item.archive_status = "" THEN "UNKNOWN" ELSE item.archive_status
\* mutant: a listing without a status is passed over like an ARCHIVED one
IsCandidate_known(status) == status \notin {"ARCHIVED", "UNKNOWN"}
\* `if (status !== "ARCHIVED")`
IsCandidate(status) == status # "ARCHIVED"
\* the candidate pushed for a listed asset
Candidate(item) == [id |-> item.id, collectionStatus |-> ListedStatus(item)]

\* scanCollection, `for (const item of resp.objects)`: a collection is
\* scanned by a nested call, an asset whose listed status is not ARCHIVED is
\* pushed
ScanItem ==
  /\ Scanning("scan")
  /\ stack # <<>>
  /\ Top.loaded
  /\ Top.i <= Len(PageOf(Top.coll, Top.page))
  /\ LET item == PageOf(Top.coll, Top.page)[Top.i]
         here == SetTop([Top EXCEPT !.i = @ + 1])
     IN IF item.object_type = "collections"
          THEN /\ Len(stack) < MaxStack
               /\ stack' = Append(here, Frame(item.id))
               /\ UNCHANGED results
          ELSE /\ stack' = here
               /\ results' = IF item.object_type = "assets"
                                 /\ IsCandidate(ListedStatus(item))
                               THEN Append(results, Candidate(item))
                               ELSE results
  /\ UNCHANGED <<flagVars, parVars, batchVars, collectionArgs, contents, root, allNonArchived,
                 run, pc, faultsIn, remoteVars, diskVars, storageCache,
                 sourceStorageIds, migLocals, fixVars, result, readLog, writeLog,
                 hist>>

\* mutant: the first page is taken for the whole listing
HasMore_never(coll, page) == FALSE
\* `hasMore = resp.pages > page`
HasMore(coll, page) == PagesOf(coll) > page

\* scanCollection, after the page's objects: `hasMore = resp.pages > page; page++`
ScanPageEnd ==
  /\ Scanning("scan")
  /\ stack # <<>>
  /\ Top.loaded
  /\ Top.i > Len(PageOf(Top.coll, Top.page))
  /\ stack' = IF HasMore(Top.coll, Top.page)
                THEN SetTop([Top EXCEPT !.page = @ + 1, !.i = 1, !.loaded = FALSE])
                ELSE Pop
  /\ UNCHANGED <<flagVars, parVars, batchVars, collectionArgs, contents, root, results,
                 allNonArchived, run, pc, faultsIn, remoteVars, diskVars,
                 storageCache, sourceStorageIds, migLocals, fixVars, result,
                 readLog, writeLog, hist>>

\* verify-collection-archive-health, after the root's scanCollection:
\* allNonArchived.push(...results), and the next root
ScanReturn ==
  /\ Fix("scan")
  /\ stack = <<>>
  /\ allNonArchived' = allNonArchived \o results
  /\ root' = root + 1
  /\ pc' = "scan_root"
  /\ UNCHANGED <<flagVars, parVars, batchVars, collectionArgs, contents, stack, results,
                 run, faultsIn, remoteVars, diskVars, storageCache,
                 sourceStorageIds, migLocals, fixVars, result, readLog, writeLog,
                 hist>>

RECURSIVE DedupFrom(_, _)
\* `const seen = new Set(); const unique = allNonArchived.filter(...)`: the
\* first occurrence of every id is kept
DedupFrom(s, seen) ==
  IF s = <<>> THEN <<>>
  ELSE IF Head(s).id \in seen THEN DedupFrom(Tail(s), seen)
  ELSE <<Head(s)>> \o DedupFrom(Tail(s), seen \cup {Head(s).id})

\* verify-collection-archive-health, after the last root: deduplicate, and
\* return when nothing is left
Deduplicate ==
  /\ Fix("scan_root")
  /\ root > Len(collectionArgs)
  /\ unique' = DedupFrom(allNonArchived, {})
  /\ IF unique' = <<>> THEN Finish("clean") ELSE pc' = "classify" /\ UNCHANGED result
  /\ UNCHANGED <<flagVars, parVars, batchVars, scanVars, run, faultsIn, remoteVars, diskVars,
                 storageCache, sourceStorageIds, migLocals, classified, totals,
                 readLog, writeLog, hist>>

ScanNext == ScanRoot \/ ScanPage \/ ScanItem \/ ScanPageEnd \/ ScanReturn \/ Deduplicate

\* -------------------------------------------------------------------
\* fix-collection-archive-status: processCollection, per collection given
\* -------------------------------------------------------------------
FixColl(at) == tool = "fixcoll" /\ pc = at

\* processCollection, after scanCollection: `targets` is what was pushed;
\* `if (targets.length === 0) return`
ProcessScanned ==
  /\ FixColl("scan")
  /\ stack = <<>>
  /\ unique' = results
  /\ classified' = <<>>
  /\ IF results = <<>>
       THEN root' = root + 1 /\ pc' = "scan_root"
       ELSE pc' = "coll_classify" /\ UNCHANGED root
  /\ UNCHANGED <<flagVars, parVars, batchVars, collectionArgs, contents, stack, results,
                 allNonArchived, run, faultsIn, remoteVars, diskVars, storageCache,
                 sourceStorageIds, migLocals, totals, result, readLog, writeLog,
                 hist>>

RECURSIVE CollFilesLoop(_, _, _, _, _)
\* classifyAsset of fix-collection-archive-status, `for (const f of files)`:
\* a target-archive placement whose file is not on the mount ends the
\* classification at once (ret "null"); otherwise the MISSING target-archive
\* placements are collected
CollFilesLoop(fl, cache, stFail, on, ups) ==
  IF fl = <<>>
    THEN [cache |-> cache, reads |-> <<>>,
          ret |-> IF on THEN "fix" ELSE "null", ups |-> ups]
  ELSE LET f == Head(fl)
           sid == f.storage_id
           c2 == CacheWith(cache, sid, sid \notin stFail)
           rd == IF ~Requests(cache, sid) THEN <<>>
                 ELSE <<Req("GET storage", sid,
                            IF sid \in stFail THEN "error" ELSE "ok")>>
           target == isTargetArchiveStorage(c2[sid])
       IN IF target /\ dstDisk[f.path] = 0
            THEN [cache |-> c2, reads |-> rd, ret |-> "null", ups |-> <<>>]
            ELSE LET rest == CollFilesLoop(Tail(fl), c2, stFail, on \/ target,
                                           IF target /\ f.status = "MISSING"
                                             THEN Append(ups, f.id) ELSE ups)
                 IN [rest EXCEPT !.reads = rd \o @]

\* classifyAsset(assetId) of fix-collection-archive-status with the request
\* failures o (o.f: the files listing answers, o.m: the formats listing
\* answers, o.st: the storages whose lookup fails).  A failed listing throws
\* and the caller records the asset as skipped.
collClassifyAsset(t, o) ==
  LET base == [id |-> t.id, collectionStatus |-> t.collectionStatus,
               realStatus |-> "NOT_FETCHED", onArchive |-> FALSE,
               archiveFileExists |-> FALSE, storages |-> <<>>,
               action |-> "skip", formatIds |-> <<>>, fileUpdates |-> <<>>]
      fl == remoteFiles[t.id]
      loop == CollFilesLoop(fl, storageCache, o.st, FALSE, <<>>)
      fmts == remoteFormats[t.id]
      pending == {i \in DOMAIN fmts : fmtStatus[t.id][fmts[i].id] # "ARCHIVED"}
      filesRead == <<Req("GET files", t.id, IF o.f THEN "ok" ELSE "error")>>
  IN IF ~o.f
       THEN [result |-> base, cache |-> storageCache, reads |-> filesRead]
     ELSE IF loop.ret = "null"
       THEN [result |-> base, cache |-> loop.cache, reads |-> filesRead \o loop.reads]
     ELSE IF ~o.m
       THEN [result |-> [base EXCEPT !.onArchive = TRUE, !.archiveFileExists = TRUE],
             cache |-> loop.cache,
             reads |-> filesRead \o loop.reads
                       \o <<Req("GET formats", t.id, "error")>>]
     ELSE [result |-> [base EXCEPT !.onArchive = TRUE, !.archiveFileExists = TRUE,
                                   !.action = "fix_metadata",
                                   !.formatIds = Ids(Filter(fmts, pending)),
                                   !.fileUpdates = loop.ups],
           cache |-> loop.cache,
           reads |-> filesRead \o loop.reads \o <<Req("GET formats", t.id, "ok")>>]

Errors(reads) == Cardinality({i \in DOMAIN reads : reads[i].resp = "error"})

\* the ways the requests of that classifyAsset can fail: every failure
\* chosen is one of a request the call makes
CollOutcomes(t) ==
  {o \in [f : BOOLEAN, m : BOOLEAN, st : SUBSET StorageIdsOf(remoteFiles[t.id])] :
     /\ Errors(collClassifyAsset(t, o).reads)
          = B2N(o.f) + B2N(o.m) + Cardinality(o.st)
     /\ faultsIn[1] + faultsIn[2] + B2N(o.f) + B2N(o.m) + Cardinality(o.st)
          <= MaxFaults}

\* processCollection, Phase 2: `for (let i = 0; i < targets.length; i++)`
ProcessPhase2 ==
  /\ FixColl("coll_classify")
  /\ Len(classified) < Len(unique)
  /\ \E o \in CollOutcomes(unique[Len(classified) + 1]) :
       LET c == collClassifyAsset(unique[Len(classified) + 1], o) IN
       /\ classified' = Append(classified, c.result)
       /\ storageCache' = c.cache
       /\ readLog' = [readLog EXCEPT ![run] = @ \o c.reads]
       /\ faultsIn' = [faultsIn EXCEPT ![run] = @ + Errors(c.reads)]
  /\ UNCHANGED <<flagVars, parVars, scanVars, batchVars, run, pc, remoteVars, diskVars,
                 sourceStorageIds, migLocals, unique, totals, result, writeLog,
                 hist>>

\* processCollection, after Phase 2: `if (toFix.length === 0) return`
ProcessToFix ==
  /\ FixColl("coll_classify")
  /\ Len(classified) = Len(unique)
  /\ IF fixMetadataOf(classified) = <<>>
       THEN root' = root + 1 /\ pc' = "scan_root" /\ UNCHANGED k
       ELSE pc' = "coll_fix" /\ k' = 1 /\ UNCHANGED root
  /\ UNCHANGED <<flagVars, parVars, batchVars, collectionArgs, contents, stack, results,
                 allNonArchived, run, faultsIn, remoteVars, diskVars, storageCache,
                 sourceStorageIds, files, fileSets, formats, fileSetId, fixVars,
                 result, readLog, writeLog, hist>>

\* processCollection, Phase 3: one iteration of `for (... i < toFix.length ...)`,
\* and the return to main's loop over the collections
ProcessPhase3 ==
  /\ FixColl("coll_fix")
  /\ IF k <= Len(fixMetadataOf(classified))
       THEN LET c == fixMetadataOf(classified)[k] IN
            /\ IF live[run]
                 THEN \E failed \in FailSets(c) :
                        LET ws == FixMetadataWrites(c, failed) IN
                        /\ Patched(ws, c.id, "ARCHIVED")
                        /\ writeLog' = [writeLog EXCEPT ![run] = @ \o ws]
                        /\ faultsIn' = [faultsIn EXCEPT ![run] = @ + Failures(ws)]
                        /\ totals' = [totals EXCEPT
                             ![run].totalFixed = @ + (IF ws[1].ok THEN 1 ELSE 0),
                             ![run].totalErrors = @ + Failures(ws)]
                 ELSE /\ totals' = [totals EXCEPT ![run].totalFixed = @ + 1]
                      /\ UNCHANGED <<assetStatus, fmtStatus, remoteFiles,
                                     writeLog, faultsIn>>
            /\ k' = k + 1
            /\ UNCHANGED <<pc, root>>
       ELSE /\ root' = root + 1
            /\ pc' = "scan_root"
            /\ k' = 1
            /\ UNCHANGED <<assetStatus, fmtStatus, remoteFiles, writeLog,
                           faultsIn, totals>>
  /\ UNCHANGED <<flagVars, parVars, batchVars, collectionArgs, contents, stack, results,
                 allNonArchived, run, remoteFormats, remoteFileSets, cascade,
                 diskVars, storageCache, sourceStorageIds, files, fileSets,
                 formats, fileSetId, unique, classified, result, readLog, hist>>

\* main of fix-collection-archive-status after the last collection: the totals
MainTotals ==
  /\ FixColl("scan_root")
  /\ root > Len(collectionArgs)
  /\ Finish("totals")
  /\ UNCHANGED <<flagVars, parVars, batchVars, scanVars, run, faultsIn, remoteVars, diskVars,
                 storageCache, sourceStorageIds, migLocals, fixVars, readLog,
                 writeLog, hist>>

FixCollNext == ProcessScanned \/ ProcessPhase2 \/ ProcessToFix \/ ProcessPhase3
               \/ MainTotals

\* ------------------------------------------------------------ initial states
Items == {"a1", "a2"}

WorkFile(id, path) ==
  [id |-> id, storage_id |-> "work", path |-> path, size |-> 1, status |-> "CLOSED"]

MigFileLists == {<<>>, <<WorkFile("w1", "p1")>>,
                 <<WorkFile("w1", "p1"), WorkFile("w2", "p2")>>}
MigFileSetLists == {<<>>, <<[id |-> "ws1", storage_id |-> "work"]>>}
MigFormatLists == {<<>>, <<[id |-> "f1", name |-> "PROXY"],
                          [id |-> "f2", name |-> "ORIGINAL"]>>}
MigModes == {<<FALSE, TRUE>>, <<TRUE, TRUE>>}
\* the asset ids on the command line
BatchLists == {<<"a1", "a2">>, <<"a2", "a1">>}
NoCounts == [success |-> 0, errors |-> 0]
NoResult == [ret |-> "none", at |-> "none", last |-> "none"]
\* fix-orphaned-with-sizes-parallel: main's stats, and the script not in use
NoStats == [orphanedCount |-> 0, fixedCount |-> 0, sizeUpdatedCount |-> 0,
            notFoundCount |-> 0, errors |-> <<>>]
OrphansIdle ==
  /\ assetIds = <<>>
  /\ batchStart = 1
  /\ task = <<>>
  /\ stats = NoStats
  /\ mortarFiles = <<>>
  /\ mortarSets = <<>>

MigInit ==
  /\ tool = "mig"
  /\ run = 1
  /\ live \in MigModes
  /\ fix = <<FALSE, FALSE>>
  /\ storageNameFilter = ""
  /\ pc = "asset"
  /\ faultsIn = <<0, 0>>
  /\ assetStatus = [i \in Items |-> "FAILED_TO_ARCHIVE"]
  /\ fmtStatus = [i \in Items |-> [f \in {"f1", "f2"} |-> "NOT_ARCHIVED"]]
  /\ \E fm \in MigFormatLists :
       remoteFormats = [i \in Items |-> IF i = MigItem THEN fm ELSE <<>>]
  /\ \E fl \in MigFileLists :
       /\ remoteFiles = [i \in Items |-> IF i = MigItem THEN fl ELSE <<>>]
       /\ \E s1 \in Sizes :
            srcDisk = [p \in Paths |-> IF p = "p1" THEN s1
                                       ELSE IF Len(fl) = 2 THEN 1 ELSE 0]
  /\ remoteFileSets \in MigFileSetLists
  /\ cascade \in BOOLEAN
  /\ \E d1 \in {0, 1} : dstDisk = [p \in Paths |-> IF p = "p1" THEN d1 ELSE 0]
  /\ storageCache = MigCache
  /\ sourceStorageIds = {}
  /\ files = <<>>
  /\ fileSets = <<>>
  /\ formats = <<>>
  /\ fileSetId = ""
  /\ k = 1
  /\ unique = <<>>
  /\ classified = <<>>
  /\ totals = [r \in Runs |-> NoTotals]
  /\ result = [r \in Runs |-> NoResult]
  /\ assetArgs = <<MigItem>>
  /\ idx = 1
  /\ counts = [r \in Runs |-> NoCounts]
  /\ attempts = <<<<assetArgs[1]>>, <<>>>>
  /\ readLog = [r \in Runs |-> <<Req("GET storage", archiveStorageId, "ok")>>]
  /\ writeLog = <<<<>>, <<>>>>
  /\ hist = <<World>>
  /\ collectionArgs = <<>>
  /\ contents = <<>>
  /\ root = 1
  /\ stack = <<>>
  /\ results = <<>>
  /\ allNonArchived = <<>>
  /\ OrphansIdle


\* the records and mounts of a batch of two items.  Either the item followed
\* has one file on the source mount or on neither mount, and the other item
\* has no formats and no file records; or the item followed has a file
\* record on the archive storage and one on another storage of purpose
\* ARCHIVE, whose file is on the source mount, with a file set left on the
\* working storage, and the other item has a file record on the working
\* storage whose file is on neither mount
BatchWorlds ==
  {[formats |-> [i \in Items |-> IF i = MigItem THEN <<[id |-> "f1", name |-> "PROXY"],
                                                        [id |-> "f2", name |-> "ORIGINAL"]>>
                                  ELSE <<>>],
    files |-> [i \in Items |-> IF i = MigItem THEN <<WorkFile("w1", "p1")>> ELSE <<>>],
    src |-> [p \in Paths |-> IF p = "p1" THEN s1 ELSE 0],
    dst |-> [p \in Paths |-> 0]] : s1 \in {0, 1}}
  \cup
  {[formats |-> [i \in Items |-> <<[id |-> "f1", name |-> "PROXY"],
                                   [id |-> "f2", name |-> "ORIGINAL"]>>],
    files |-> [i \in Items |->
                 IF i = MigItem
                   THEN <<[id |-> "x1", storage_id |-> archiveStorageId, path |-> "p1",
                           size |-> 1, status |-> "CLOSED"],
                          [id |-> "d1", storage_id |-> "deep", path |-> "q",
                           size |-> 1, status |-> "CLOSED"]>>
                   ELSE <<WorkFile("w2", "p2")>>],
    src |-> [p \in Paths |-> IF p = "q" THEN 1 ELSE 0],
    dst |-> [p \in Paths |-> IF p = "p1" THEN 1 ELSE 0]]}

\* a batch of two items, live
BatchInit ==
  /\ tool = "mig"
  /\ run = 1
  /\ live = <<TRUE, TRUE>>
  /\ fix = <<FALSE, FALSE>>
  /\ storageNameFilter = ""
  /\ pc = "asset"
  /\ faultsIn = <<0, 0>>
  /\ assetStatus = [i \in Items |-> "FAILED_TO_ARCHIVE"]
  /\ fmtStatus = [i \in Items |-> [f \in {"f1", "f2"} |-> "NOT_ARCHIVED"]]
  /\ \E w \in BatchWorlds :
       /\ remoteFormats = w.formats
       /\ remoteFiles = w.files
       /\ srcDisk = w.src
       /\ dstDisk = w.dst
  /\ remoteFileSets = <<[id |-> "ws1", storage_id |-> "work"]>>
  /\ cascade = FALSE
  /\ storageCache = MigCache
  /\ sourceStorageIds = {}
  /\ files = <<>>
  /\ fileSets = <<>>
  /\ formats = <<>>
  /\ fileSetId = ""
  /\ k = 1
  /\ unique = <<>>
  /\ classified = <<>>
  /\ totals = [r \in Runs |-> NoTotals]
  /\ result = [r \in Runs |-> NoResult]
  /\ assetArgs \in BatchLists
  /\ idx = 1
  /\ counts = [r \in Runs |-> NoCounts]
  /\ attempts = <<<<assetArgs[1]>>, <<>>>>
  /\ readLog = [r \in Runs |-> <<Req("GET storage", archiveStorageId, "ok")>>]
  /\ writeLog = <<<<>>, <<>>>>
  /\ hist = <<World>>
  /\ collectionArgs = <<>>
  /\ contents = <<>>
  /\ root = 1
  /\ stack = <<>>
  /\ results = <<>>
  /\ allNonArchived = <<>>
  /\ OrphansIdle

RealStatuses == {"ARCHIVED", "NOT_ARCHIVED", "ARCHIVING", "FAILED_TO_ARCHIVE"}

FileRec(id, storage, path, status) ==
  [id |-> id, storage_id |-> storage, path |-> path, size |-> 1, status |-> status]

\* the placements of the first candidate: none; on the archive storage,
\* MISSING or CLOSED; on a working storage; on another archive storage; on
\* the archive storage twice, one of the files not on the mount
FixFileLists1 ==
  {<<>>,
   <<FileRec("x1", "arch", "p1", "MISSING")>>,
   <<FileRec("x1", "arch", "p1", "CLOSED")>>,
   <<FileRec("x1", "work", "p1", "CLOSED")>>,
   <<FileRec("x1", "deep", "p1", "MISSING")>>,
   <<FileRec("x1", "arch", "p1", "CLOSED"), FileRec("x2", "arch", "q", "MISSING")>>}
FixFileLists2 ==
  {<<>>,
   <<FileRec("y1", "arch", "p2", "MISSING")>>,
   <<FileRec("y1", "work", "p2", "CLOSED")>>}

OnArchivePurpose(fl) ==
  \E i \in DOMAIN fl : StorageOf(fl[i].storage_id).purpose = "ARCHIVE"

\* (--fix, --live) of the two invocations
FixModes == {<<<<TRUE, FALSE>>, <<TRUE, TRUE>>>>,
             <<<<FALSE, TRUE>>, <<TRUE, TRUE>>>>,
             <<<<TRUE, TRUE>>, <<TRUE, TRUE>>>>}

FixFormats == <<[id |-> "f1", name |-> "ORIGINAL"], [id |-> "f2", name |-> "PROXY"]>>

FixInit ==
  /\ tool = "fix"
  /\ run = 1
  /\ \E m \in FixModes :
       /\ fix = [r \in Runs |-> m[r][1]]
       /\ live = [r \in Runs |-> m[r][2]]
  /\ pc = "classify"
  /\ faultsIn = <<0, 0>>
  /\ \E s1 \in RealStatuses, s2 \in {"NOT_ARCHIVED", "ARCHIVING"} :
       assetStatus = [i \in Items |-> IF i = "a1" THEN s1 ELSE s2]
  /\ fmtStatus = [i \in Items |->
                    [f \in {"f1", "f2"} |->
                       IF i = "a1" /\ f = "f2" THEN "ARCHIVED" ELSE "NOT_ARCHIVED"]]
  /\ remoteFormats = [i \in Items |-> FixFormats]
  /\ \E fl1 \in FixFileLists1, fl2 \in FixFileLists2 :
       /\ remoteFiles = [i \in Items |-> IF i = "a1" THEN fl1 ELSE fl2]
       /\ \E d1 \in {0, 1}, d2 \in {0, 1} :
            /\ ~OnArchivePurpose(fl1) => d1 = 0
            /\ ~OnArchivePurpose(fl2) => d2 = 0
            /\ dstDisk = [p \in Paths |-> IF p = "p1" THEN d1
                                          ELSE IF p = "p2" THEN d2 ELSE 0]
       /\ storageNameFilter \in
            IF \E i \in DOMAIN fl1 : fl1[i].storage_id = "deep"
              THEN {"", "Vault"} ELSE {""}
  /\ remoteFileSets = <<>>
  /\ cascade = FALSE
  /\ srcDisk = [p \in Paths |-> 0]
  /\ storageCache = EmptyCache
  /\ sourceStorageIds = {}
  /\ files = <<>>
  /\ fileSets = <<>>
  /\ formats = <<>>
  /\ fileSetId = ""
  /\ k = 1
  /\ unique = <<[id |-> "a1", collectionStatus |-> "NOT_ARCHIVED"],
                 [id |-> "a2", collectionStatus |-> "FAILED_TO_ARCHIVE"]>>
  /\ classified = <<>>
  /\ totals = [r \in Runs |-> NoTotals]
  /\ result = [r \in Runs |-> NoResult]
  /\ assetArgs = <<>>
  /\ idx = 1
  /\ counts = [r \in Runs |-> NoCounts]
  /\ attempts = <<<<>>, <<>>>>
  /\ readLog = [r \in Runs |-> <<>>]
  /\ writeLog = <<<<>>, <<>>>>
  /\ hist = <<World>>
  /\ collectionArgs = <<>>
  /\ contents = <<>>
  /\ root = 1
  /\ stack = <<>>
  /\ results = <<>>
  /\ allNonArchived = <<>>
  /\ OrphansIdle

SpecFix == FixInit /\ [][FixNext]_vars

\* ---------------------------------------------------------- scanned worlds
Coll(id) == [object_type |-> "collections", id |-> id, archive_status |-> "N/A"]
Asset(id, status) == [object_type |-> "assets", id |-> id, archive_status |-> status]
CollIds == {"c1", "c2", "c3"}

\* two roots; c1 lists a1, then the collection c3, and a2 on a second page;
\* c3 lists a1 again; the second root c2 lists a2 again, without a status,
\* and an item listed as ARCHIVED
NestedContents ==
  [c \in CollIds |->
     IF c = "c1" THEN <<<<Asset("a1", "NOT_ARCHIVED"), Coll("c3")>>,
                        <<Asset("a2", "FAILED_TO_ARCHIVE")>>>>
     ELSE IF c = "c2" THEN <<<<Asset("a2", ""), Asset("a3", "ARCHIVED")>>>>
     ELSE <<<<Asset("a1", "NOT_ARCHIVED")>>>>]
\* one root that lists itself among its contents
CyclicContents ==
  [c \in CollIds |->
     IF c = "c1" THEN <<<<Asset("a1", "NOT_ARCHIVED"), Coll("c1")>>>>
     ELSE <<>>]
\* one root; its children c2 and c3, and c2 lists c3 as well; c3 has two pages
SharedContents ==
  [c \in CollIds |->
     IF c = "c1" THEN <<<<Coll("c2"), Coll("c3")>>>>
     ELSE IF c = "c2" THEN <<<<Coll("c3")>>>>
     ELSE <<<<Asset("a1", "NOT_ARCHIVED")>>, <<Asset("a2", "FAILED_TO_ARCHIVE")>>>>]
ScanWorlds == {[roots |-> <<"c1", "c2">>, contents |-> NestedContents],
               [roots |-> <<"c1">>, contents |-> CyclicContents],
               [roots |-> <<"c1">>, contents |-> SharedContents]}

\* either collection script on collections to scan, --fix and then
\* --fix --live, or --fix --live twice: a1 has its file on the archive mount
\* and a MISSING placement there, a2 has no placement
ScanInit ==
  /\ tool \in {"fix", "fixcoll"}
  /\ run = 1
  /\ fix = [r \in Runs |-> TRUE]
  /\ live \in {<<FALSE, TRUE>>, <<TRUE, TRUE>>}
  /\ storageNameFilter = ""
  /\ pc = "scan_root"
  /\ faultsIn = <<0, 0>>
  /\ assetStatus = [i \in Items |-> IF i = "a1" THEN "NOT_ARCHIVED"
                                    ELSE "FAILED_TO_ARCHIVE"]
  /\ fmtStatus = [i \in Items |->
                    [f \in {"f1", "f2"} |->
                       IF i = "a1" /\ f = "f2" THEN "ARCHIVED" ELSE "NOT_ARCHIVED"]]
  /\ remoteFormats = [i \in Items |-> FixFormats]
  /\ remoteFiles = [i \in Items |->
                      IF i = "a1" THEN <<FileRec("x1", "arch", "p1", "MISSING")>>
                      ELSE <<>>]
  /\ dstDisk = [p \in Paths |-> IF p = "p1" THEN 1 ELSE 0]
  /\ remoteFileSets = <<>>
  /\ cascade = FALSE
  /\ srcDisk = [p \in Paths |-> 0]
  /\ storageCache = EmptyCache
  /\ sourceStorageIds = {}
  /\ files = <<>>
  /\ fileSets = <<>>
  /\ formats = <<>>
  /\ fileSetId = ""
  /\ k = 1
  /\ unique = <<>>
  /\ classified = <<>>
  /\ totals = [r \in Runs |-> NoTotals]
  /\ result = [r \in Runs |-> NoResult]
  /\ assetArgs = <<>>
  /\ idx = 1
  /\ counts = [r \in Runs |-> NoCounts]
  /\ attempts = <<<<>>, <<>>>>
  /\ readLog = [r \in Runs |-> <<>>]
  /\ writeLog = <<<<>>, <<>>>>
  /\ hist = <<World>>
  /\ \E w \in ScanWorlds :
       /\ collectionArgs = w.roots
       /\ contents = w.contents
  /\ root = 1
  /\ stack = <<>>
  /\ results = <<>>
  /\ allNonArchived = <<>>
  /\ OrphansIdle

CollNext == ScanNext \/ FixCollNext \/ FixNext
SpecScan == ScanInit /\ [][CollNext]_vars

\* ===================================================================
\* fix-orphaned-with-sizes-parallel
\* ===================================================================
Orphans(at) == tool = "orphans" /\ pc = at

CONCURRENCY == 10
mortarStorageId == "mortar"
\* a processAsset call: where it is suspended, the file set in hand, what its
\* two listings returned, whether one of them threw, and how many times the
\* call was made
NoTask == [at |-> "idle", k |-> 1, sets |-> <<>>, seen |-> <<>>, threw |-> FALSE,
           calls |-> 0]

\* the file sets each asset lists
FileSet(id, storage, name) == [id |-> id, storage_id |-> storage, name |-> name]
AssetFileSets(a) ==
  IF a = "b1" THEN <<FileSet("s1", "mortar", "n1"), FileSet("s2", "mortar", "n2")>>
  ELSE IF a = "b2" THEN <<FileSet("s3", "mortar", "n3")>>
  ELSE IF a = "b3" THEN <<FileSet("s4", "work", "n1")>>
  ELSE IF a = "b11" THEN <<FileSet("s5", "mortar", "n5")>>
  ELSE <<>>
\* the assets whose listings may fail
Unreliable == {"b1", "b2", "b11"}
\* the mount: file name -> size of the file there
Mount == [n \in {"n1", "n3", "n5"} |-> IF n = "n1" THEN 2 ELSE 1]
\* getFileSize returns null when the file cannot be stat'ed
OnMount(name) == name \in DOMAIN Mount
getFileSize(name) == Mount[name]

\* the mortar file sets of an asset as the listing returns them
mortarFileSets(a) ==
  LET all == [j \in DOMAIN AssetFileSets(a) |->
                [id |-> AssetFileSets(a)[j].id, storage_id |-> AssetFileSets(a)[j].storage_id,
                 name |-> AssetFileSets(a)[j].name, status |-> mortarSets[AssetFileSets(a)[j].id]]]
  IN Filter(all, {j \in DOMAIN all : all[j].storage_id = mortarStorageId})

\* stats.<field>++
Bump(st, field) == [st EXCEPT ![field] = @ + 1]

RECURSIVE Loop(_, _, _)
\* processAsset's loop over mortarFileSets from the n-th on, up to its next
\* await: the call and the stats as they are then
Loop(t, n, st) ==
  IF n > Len(t.sets) THEN [task |-> [t EXCEPT !.at = "done", !.k = n], stats |-> st]
  ELSE
    LET fs == t.sets[n]
        existingFile == FirstIdx({j \in DOMAIN t.seen : t.seen[j].file_set_id = fs.id})
    IN IF existingFile = 0
         THEN LET orphaned == Bump(st, "orphanedCount")
              IN IF ~OnMount(fs.name)
                   THEN Loop(t, n + 1, Bump(orphaned, "notFoundCount"))
                 ELSE IF live[run]
                   THEN [task |-> [t EXCEPT !.at = IF fs.status = "DELETED"
                                                     THEN "undelete" ELSE "post",
                                            !.k = n],
                         stats |-> orphaned]
                 ELSE Loop(t, n + 1, Bump(Bump(orphaned, "fixedCount"),
                                          "sizeUpdatedCount"))
       ELSE IF t.seen[existingFile].size = 0 /\ OnMount(fs.name)
               /\ getFileSize(fs.name) > 0
         THEN IF live[run]
                THEN [task |-> [t EXCEPT !.at = "size", !.k = n], stats |-> st]
                ELSE Loop(t, n + 1, Bump(st, "sizeUpdatedCount"))
       ELSE Loop(t, n + 1, st)

\* mutant: everything left is started at once
Batch_rest(from, n) == from..n
\* items.slice(i, i + batchSize), as positions of items
Batch(from, n) ==
  from..(IF from + CONCURRENCY - 1 < n THEN from + CONCURRENCY - 1 ELSE n)

orphanFrame == <<flagVars, run, remoteVars, diskVars, storageCache, sourceStorageIds,
                 migLocals, fixVars, hist, batchVars, scanVars, assetIds>>

\* one iteration of processInBatches' loop: the window before has settled,
\* the calls of the next one are made, each up to its first await
processInBatches ==
  /\ Orphans("batches")
  /\ \A p \in DOMAIN task : task[p].at \in {"idle", "done"}
  /\ IF batchStart <= Len(assetIds)
       THEN /\ task' = [p \in DOMAIN task |->
                          IF p \in Batch(batchStart, Len(assetIds))
                            THEN [task[p] EXCEPT !.at = "fetch", !.calls = @ + 1]
                            ELSE task[p]]
            /\ batchStart' = batchStart + CONCURRENCY
            /\ UNCHANGED <<pc, result>>
       ELSE /\ Finish("summary")
            /\ UNCHANGED <<task, batchStart>>
  /\ UNCHANGED <<orphanFrame, faultsIn, readLog, writeLog, stats, mortarFiles,
                 mortarSets>>

\* the two listings of a call come back, or one of them fails
\* and the call is over (the order in which the listings of different calls
\* come back is kept in `task`, not in readLog)
ListingsBack(p) ==
  /\ Orphans("batches")
  /\ task[p].at = "fetch"
  /\ LET a == assetIds[p] IN
       \/ /\ LET t == [task[p] EXCEPT !.sets = mortarFileSets(a),
                                      !.seen = mortarFiles[a]]
                 r == Loop(t, 1, stats)
             IN /\ task' = [task EXCEPT ![p] = r.task]
                /\ stats' = r.stats
          /\ UNCHANGED faultsIn
       \/ /\ Fault
          /\ a \in Unreliable
          /\ faultsIn' = Faulted
          /\ task' = [task EXCEPT ![p].at = "done", ![p].threw = TRUE]
          /\ UNCHANGED stats
  /\ UNCHANGED <<orphanFrame, pc, result, readLog, writeLog, batchStart, mortarFiles,
                 mortarSets>>

WriteOf(at) == IF at = "undelete" THEN "PATCH file_set status"
               ELSE IF at = "post" THEN "POST files" ELSE "PATCH size"

\* the write a call awaits comes back, or fails
WriteBack(p) ==
  /\ Orphans("batches")
  /\ task[p].at \in {"undelete", "post", "size"}
  /\ LET a == assetIds[p]
         t == task[p]
         fs == t.sets[t.k]
     IN
       \/ /\ Wrote(WriteOf(t.at), a, fs.id, TRUE)
          /\ mortarSets' = IF t.at = "undelete"
                             THEN [mortarSets EXCEPT ![fs.id] = "ACTIVE"]
                             ELSE mortarSets
          /\ mortarFiles' =
               IF t.at = "post"
                 THEN [mortarFiles EXCEPT ![a] =
                         Append(@, [id |-> fs.name, file_set_id |-> fs.id,
                                    size |-> getFileSize(fs.name)])]
               ELSE IF t.at = "size"
                 THEN [mortarFiles EXCEPT ![a] =
                         [j \in DOMAIN @ |->
                            IF @[j].file_set_id = fs.id
                              THEN [@[j] EXCEPT !.size = getFileSize(fs.name)]
                              ELSE @[j]]]
               ELSE mortarFiles
          /\ IF t.at = "undelete"
               THEN /\ task' = [task EXCEPT ![p].at = "post"]
                    /\ UNCHANGED stats
               ELSE LET counted == IF t.at = "post"
                                     THEN Bump(Bump(stats, "fixedCount"),
                                               "sizeUpdatedCount")
                                     ELSE Bump(stats, "sizeUpdatedCount")
                        r == Loop(t, t.k + 1, counted)
                    IN /\ task' = [task EXCEPT ![p] = r.task]
                       /\ stats' = r.stats
          /\ UNCHANGED faultsIn
       \/ /\ Fault
          /\ faultsIn' = Faulted
          /\ Wrote(WriteOf(t.at), a, fs.id, FALSE)
          /\ LET r == Loop(t, t.k + 1, [stats EXCEPT !.errors = Append(@, fs.name)])
             IN /\ task' = [task EXCEPT ![p] = r.task]
                /\ stats' = r.stats
          /\ UNCHANGED <<mortarFiles, mortarSets>>
  /\ UNCHANGED <<orphanFrame, pc, result, readLog, batchStart>>

OrphansNext ==
  \/ processInBatches
  \/ \E p \in DOMAIN task : ListingsBack(p)
  \/ \E p \in DOMAIN task : WriteBack(p)

MaxAssets == 11
AssetNames == <<"b1", "b2", "b3", "b4", "b5", "b6", "b7", "b8", "b9", "b10", "b11",
                "b12", "b13">>
\* what getAllAssets returned: every asset once, or (an asset that two of the
\* collections contain) b2 twice
AssetLists == {SubSeq(AssetNames, 1, MaxAssets),
               [SubSeq(AssetNames, 1, MaxAssets) EXCEPT ![4] = "b2"]}
\* the records when the script starts
FilesAtStart(a) ==
  IF a = "b2" THEN <<[id |-> "n3", file_set_id |-> "s3", size |-> 0]>> ELSE <<>>
StatusAtStart(s) == IF s = "s1" THEN "DELETED" ELSE "ACTIVE"

\* main has found the storage and listed the assets; processInBatches is called
OrphansInit ==
  /\ tool = "orphans"
  /\ run = 1
  /\ fix = [r \in Runs |-> FALSE]
  /\ live \in {<<FALSE, FALSE>>, <<TRUE, TRUE>>}
  /\ storageNameFilter = ""
  /\ pc = "batches"
  /\ faultsIn = <<0, 0>>
  /\ assetStatus = [j \in Items |-> "NOT_ARCHIVED"]
  /\ fmtStatus = [j \in Items |-> [f \in {"f1", "f2"} |-> "NOT_ARCHIVED"]]
  /\ remoteFormats = [j \in Items |-> <<>>]
  /\ remoteFiles = [j \in Items |-> <<>>]
  /\ dstDisk = [p \in Paths |-> 0]
  /\ remoteFileSets = <<>>
  /\ cascade = FALSE
  /\ srcDisk = [p \in Paths |-> 0]
  /\ storageCache = EmptyCache
  /\ sourceStorageIds = {}
  /\ files = <<>>
  /\ fileSets = <<>>
  /\ formats = <<>>
  /\ fileSetId = ""
  /\ k = 1
  /\ unique = <<>>
  /\ classified = <<>>
  /\ totals = [r \in Runs |-> NoTotals]
  /\ result = [r \in Runs |-> NoResult]
  /\ assetArgs = <<>>
  /\ idx = 1
  /\ counts = [r \in Runs |-> NoCounts]
  /\ attempts = <<<<>>, <<>>>>
  /\ readLog = [r \in Runs |-> <<>>]
  /\ writeLog = <<<<>>, <<>>>>
  /\ hist = <<World>>
  /\ collectionArgs = <<>>
  /\ contents = <<>>
  /\ root = 1
  /\ stack = <<>>
  /\ results = <<>>
  /\ allNonArchived = <<>>
  /\ assetIds \in AssetLists
  /\ batchStart = 1
  /\ task = [p \in 1..MaxAssets |-> NoTask]
  /\ stats = NoStats
  /\ mortarFiles = [a \in {AssetNames[p] : p \in 1..MaxAssets} |-> FilesAtStart(a)]
  /\ mortarSets = [s \in {"s1", "s2", "s3", "s4", "s5"} |-> StatusAtStart(s)]

SpecOrphans == OrphansInit /\ [][OrphansNext]_vars

Init == MigInit \/ BatchInit \/ FixInit \/ ScanInit \/ OrphansInit
Next == MigNext \/ FixNext \/ ScanNext \/ FixCollNext \/ OrphansNext
Spec == Init /\ [][Next]_vars

SpecMig == MigInit /\ [][MigNext]_vars

\* ===================================================================
\* Properties
\* ===================================================================
Seen(log, P(_)) == \E i \in DOMAIN log : P(log[i])
Before(log, j, P(_)) == \E i \in 1..(j - 1) : P(log[i])
Times(log, P(_)) == Cardinality({i \in DOMAIN log : P(log[i])})

IsRetire(w) == w.op \in {"DELETE file_set", "unlink"}
IsCreate(w) == w.op \in {"POST file_set", "POST file"}
Did(w, op) == w.op = op /\ w.ok
ArchiveRecords == {i \in DOMAIN remoteFiles[MigItem] :
                     remoteFiles[MigItem][i].storage_id = archiveStorageId}
ArchiveSets == {i \in DOMAIN remoteFileSets :
                  remoteFileSets[i].storage_id = archiveStorageId}
MigDone(r) == tool = "mig" /\ run = r /\ pc = "done"
\* the source file sets and the source files on the mount that the run found
SourceSetsOf(r) == {i \in DOMAIN hist[r].sets : hist[r].sets[i].storage_id = "work"}
SourceFilesOf(r) == {i \in DOMAIN hist[r].recs[MigItem] :
                       /\ hist[r].recs[MigItem][i].storage_id = "work"
                       /\ hist[r].src[hist[r].recs[MigItem][i].path] > 0}
\* the paths archiveAsset worked on in run r: of the reference file on the
\* archive mount, of the source file on the source mount
RefPath(r) == hist[r].recs[MigItem][refFile(hist[r].recs[MigItem])].path
SrcPath(r) == hist[r].recs[MigItem][sourceFile(hist[r].recs[MigItem])].path

\* C1: in a live run of archiveAsset, a source file-set DELETE or a source
\* file deletion is issued only after the destination file is on the archive
\* mount, a destination file-set record and a destination file record exist,
\* and the PATCH to ARCHIVED of the item and of each of its formats succeeded
\* earlier in that run.
C1_RetireOnlyAfterCutover ==
  tool = "mig" =>
    \A j \in DOMAIN writeLog[run] :
      IsRetire(writeLog[run][j]) =>
        /\ live[run]
        /\ ArchiveSets # {}
        /\ \E i \in ArchiveRecords : dstDisk[remoteFiles[MigItem][i].path] > 0
        /\ LET PatchedAsset(w) == Did(w, "PATCH asset") IN
           Before(writeLog[run], j, PatchedAsset)
        /\ \A f \in DOMAIN remoteFormats[MigItem] :
             LET PatchedFmt(w) == Did(w, "PATCH format")
                                  /\ w.id = remoteFormats[MigItem][f].id IN
             Before(writeLog[run], j, PatchedFmt)
        /\ assetStatus[MigItem] = "ARCHIVED"
        /\ \A f \in DOMAIN remoteFormats[MigItem] :
             fmtStatus[MigItem][remoteFormats[MigItem][f].id] = "ARCHIVED"

C1_Witness ==
  /\ MigDone(1)
  /\ result[1].ret = "true"
  /\ LET Del(w) == Did(w, "DELETE file_set") IN Seen(writeLog[1], Del)
  /\ LET Unl(w) == Did(w, "unlink") IN Seen(writeLog[1], Unl)

\* the run got as far as step 1 (the file's presence on the mounts was examined)
ReachedStep1(r) == result[r].at \notin {"none", "asset", "files", "file_sets",
                                        "formats", "discover"}

\* C2: when the copied file's size differs from the source file's size, or
\* the file is on neither mount, the run reports not-done and performs no
\* later step: no record is created, patched or deleted and no source file
\* is removed.
C2_Step2FailureStops ==
  \A r \in Runs :
    (MigDone(r) /\ ReachedStep1(r) /\ result[r].ret # "crashed") =>
      LET Copied(w) == Did(w, "copy")
          OnlyCopy == \A j \in DOMAIN writeLog[r] : writeLog[r][j].op = "copy"
          Untouched == /\ assetStatus = hist[r].asset
                       /\ fmtStatus = hist[r].fmt
                       /\ remoteFiles = hist[r].recs
                       /\ remoteFileSets = hist[r].sets
                       /\ srcDisk = hist[r].src
      IN /\ (Seen(writeLog[r], Copied)
              /\ dstDisk[RefPath(r)] # hist[r].src[SrcPath(r)])
               => (result[r].ret = "false" /\ OnlyCopy /\ Untouched)
         /\ (hist[r].dst[RefPath(r)] = 0
              /\ (sourceFile(hist[r].recs[MigItem]) = 0 \/ hist[r].src[SrcPath(r)] = 0))
               => (result[r].ret = "false" /\ writeLog[r] = <<>> /\ Untouched
                   /\ dstDisk = hist[r].dst)

\* a live run that stopped on a copy of the wrong size
C2_Witness ==
  /\ MigDone(1)
  /\ live[1]
  /\ result[1].ret = "false" /\ result[1].at = "verify"
  /\ dstDisk["p1"] # srcDisk["p1"]
  /\ Len(remoteFormats[MigItem]) = 2

\* C3: a second live run on the same item, with nothing changed in between
\* and no fault in either run, ends in the state the first run ended in; and
\* after a first run that reported done the second run copies nothing and
\* creates no destination file-set record and no destination file record.
C3_SecondRunIsNoOp ==
  (MigDone(2) /\ live[1] /\ live[2]) =>
    LET Copy(w) == w.op = "copy" IN
    /\ (faultsIn[1] = 0 /\ faultsIn[2] = 0) =>
          (World = hist[2] /\ result[2].ret = result[1].ret)
    /\ result[1].ret = "true" =>
          (~Seen(writeLog[2], Copy) /\ ~Seen(writeLog[2], IsCreate))

C3_Witness ==
  /\ MigDone(2) /\ live[1] /\ live[2]
  /\ faultsIn[1] = 0 /\ faultsIn[2] = 0
  /\ result[1].ret = "true" /\ result[2].ret = "true"
  /\ LET Copied(w) == Did(w, "copy") IN Seen(writeLog[1], Copied)
  /\ LET Posted(w) == Did(w, "POST file") IN Seen(writeLog[1], Posted)

\* the first run was a live run cut short, by a crash or by a failed request,
\* at or after the copy
Interrupted ==
  /\ live[1]
  /\ result[1].ret \in {"fatal", "crashed"}
  /\ \/ result[1].at \in {"verify", "step2", "post_fs", "step3", "step4",
                          "step4f", "step5", "step6"}
     \/ /\ result[1].at = "step1"
        /\ LET Copy(w) == w.op = "copy" IN Seen(writeLog[1], Copy)

FixDone(r) == tool = "fix" /\ run = r /\ pc = "done"
AssetReads(id) == {i \in DOMAIN readLog[run] :
                     readLog[run][i].req = "GET asset" /\ readLog[run][i].id = id}

\* C5: an item whose individually fetched archive status is ARCHIVED is
\* classified stale_cache, whatever its placements, their storages, its
\* formats and the mount hold, and neither its placements nor its formats
\* are requested.
C5_ArchivedIsStaleCache ==
  tool = "fix" =>
    \A n \in DOMAIN classified :
      (\E i \in AssetReads(classified[n].id) : readLog[run][i].resp = "ARCHIVED") =>
        /\ classified[n].action = "stale_cache"
        /\ \A i \in DOMAIN readLog[run] :
             readLog[run][i].id = classified[n].id => readLog[run][i].req = "GET asset"

\* an ARCHIVED item with a MISSING placement on the archive storage whose
\* file is on the mount
C5_Witness ==
  /\ tool = "fix" /\ run = 1
  /\ Len(classified) >= 1
  /\ classified[1].action = "stale_cache"
  /\ assetStatus["a1"] = "ARCHIVED"
  /\ Len(remoteFiles["a1"]) = 1
  /\ remoteFiles["a1"][1].storage_id = "arch"
  /\ dstDisk["p1"] > 0

\* what classifyAsset was given for an item: the answer of the asset
\* request, the placements as fetched (none when the request failed or was
\* not made), each with its storage as resolved and whether its file is on
\* the mount
Given(id) ==
  LET aResp == {readLog[run][i].resp : i \in AssetReads(id)}
      fOk == \E i \in DOMAIN readLog[run] :
               readLog[run][i] = Req("GET files", id, "ok")
      fl == IF fOk THEN hist[run].recs[id] ELSE <<>>
  IN <<aResp, [i \in DOMAIN fl |-> <<fl[i].storage_id, storageCache[fl[i].storage_id],
                                     fl[i].status, dstDisk[fl[i].path] > 0>>]>>

\* C6: two items classified in one run with the same fetched status, the same
\* placements on the same storages and the same files on the mount get the
\* same action, whatever status the collection listing showed for them and
\* whichever of them was classified first.
C6_ActionIgnoresListing ==
  tool = "fix" =>
    \A m \in DOMAIN classified, n \in DOMAIN classified :
      Given(classified[m].id) = Given(classified[n].id) =>
        classified[m].action = classified[n].action

\* two items listed with different statuses, classified on the same evidence
C6_Witness ==
  /\ tool = "fix"
  /\ Len(classified) = 2
  /\ classified[1].collectionStatus # classified[2].collectionStatus
  /\ Given("a1") = Given("a2")
  /\ classified[1].action = "fix_metadata"
  /\ classified[2].action = "fix_metadata"

\* C7: an invocation without --live, and an invocation of the health check
\* without --fix, issues no write request, no copy and no file deletion, and
\* leaves the remote records and both mounts as they were.
C7_NoWriteUnlessLive ==
  \A r \in Runs :
    (~live[r] \/ (tool = "fix" /\ ~fix[r])) =>
      /\ writeLog[r] = <<>>
      /\ run = r => World = hist[r]

\* a dry run of the migration that went through all six steps of an item
\* whose file is only on the source mount
C7_Witness ==
  /\ MigDone(1)
  /\ ~live[1]
  /\ result[1].ret = "true"
  /\ dstDisk["p1"] = 0
  /\ SourceSetsOf(1) # {}
  /\ SourceFilesOf(1) # {}

\* C8: on the same records and disks, with no request failing and the copy
\* complete, a dry run and the live run after it issue the same read
\* requests in the same order and report the same result and counts.
C8_DryRunReadsAsLive ==
  (run = 2 /\ pc = "done" /\ ~live[1] /\ live[2] /\ fix[1] = fix[2]
     /\ faultsIn[1] = 0 /\ faultsIn[2] = 0) =>
    /\ readLog[1] = readLog[2]
    /\ result[1].ret = result[2].ret
    /\ totals[1] = totals[2]

\* a dry run, then a live run that copied the file and created the records
C8_Witness ==
  /\ MigDone(2) /\ ~live[1] /\ live[2]
  /\ faultsIn[1] = 0 /\ faultsIn[2] = 0
  /\ result[2].ret = "true"
  /\ LET Copied(w) == Did(w, "copy") IN Seen(writeLog[2], Copied)
  /\ LET Comps(q) == q.req = "GET components" IN Seen(readLog[1], Comps)

\* C9: every write of the health check is for an item classified
\* fix_metadata or reset_failed; an item classified stale_cache or skip gets
\* none, even with --fix --live.
C9_NoWriteForStaleOrSkip ==
  tool = "fix" =>
    \A j \in DOMAIN writeLog[run] :
      \E n \in DOMAIN classified :
        /\ classified[n].id = writeLog[run][j].item
        /\ classified[n].action \in {"fix_metadata", "reset_failed"}

\* --fix --live, one item stale_cache and the other one fixed
C9_Witness ==
  /\ FixDone(1) /\ fix[1] /\ live[1]
  /\ classified[1].action = "stale_cache"
  /\ classified[2].action = "fix_metadata"
  /\ writeLog[1] # <<>>

Attempted(op, item, id) ==
  \E j \in DOMAIN writeLog[run] :
    /\ writeLog[run][j].op = op
    /\ writeLog[run][j].item = item
    /\ writeLog[run][j].id = id
LiveFixDone == tool = "fix" /\ pc = "done" /\ result[run].ret = "fixed" /\ live[run]
ToFix == WithAction(classified, {"fix_metadata"})

\* C10 as claimed: every fix_metadata item has its item PATCH, each of its
\* format PATCHes and each of its file PATCHes attempted, whichever of them
\* failed, the item PATCH included.
C10_AllSubStepsAttempted ==
  LiveFixDone =>
    \A n \in DOMAIN ToFix :
      /\ Attempted("PATCH asset", ToFix[n].id, ToFix[n].id)
      /\ \A i \in DOMAIN ToFix[n].formatIds :
           Attempted("PATCH format", ToFix[n].id, ToFix[n].formatIds[i])
      /\ \A i \in DOMAIN ToFix[n].fileUpdates :
           Attempted("PATCH file", ToFix[n].id, ToFix[n].fileUpdates[i])

\* C10 as amended: the item PATCH of every fix_metadata item is attempted;
\* when it succeeds, each format PATCH and each file PATCH of the item is
\* attempted whichever of them fail; when it fails, none of them is; every
\* failed PATCH is counted as one error.
C10_SubStepsAfterItemPatch ==
  LiveFixDone =>
    /\ \A n \in DOMAIN ToFix :
         LET id == ToFix[n].id
             ItemOk(w) == Did(w, "PATCH asset") /\ w.item = id
             Sub(w) == w.item = id /\ w.op \in {"PATCH format", "PATCH file"}
         IN /\ Attempted("PATCH asset", id, id)
            /\ Seen(writeLog[run], ItemOk) =>
                 /\ \A i \in DOMAIN ToFix[n].formatIds :
                      Attempted("PATCH format", id, ToFix[n].formatIds[i])
                 /\ \A i \in DOMAIN ToFix[n].fileUpdates :
                      Attempted("PATCH file", id, ToFix[n].fileUpdates[i])
            /\ ~Seen(writeLog[run], ItemOk) => ~Seen(writeLog[run], Sub)
    /\ totals[run].totalErrors = Failures(writeLog[run])

\* a format PATCH failed and the file PATCH of the same item was attempted
C10_Witness ==
  /\ LiveFixDone
  /\ \E j \in DOMAIN writeLog[run] :
       /\ writeLog[run][j] = Wr("PATCH format", "a1", "f1", FALSE)
       /\ j < Len(writeLog[run])
       /\ writeLog[run][j + 1] = Wr("PATCH file", "a1", "x1", TRUE)
  /\ totals[run].totalErrors = 1

\* the placements of item id at the start of the run that are on a target
\* archive storage
TargetPlacements(id) ==
  {i \in DOMAIN hist[run].recs[id] :
     isTargetArchiveStorage(StorageOf(hist[run].recs[id][i].storage_id))}
PatchedOk(op, item, id) ==
  \E j \in DOMAIN writeLog[run] : writeLog[run][j] = Wr(op, item, id, TRUE)
CleanLiveFix == LiveFixDone /\ faultsIn[run] = 0

\* C12: after a live fix pass in which every request succeeded, every
\* fix_metadata item was patched to ARCHIVED, each of its formats that was
\* not ARCHIVED was patched to ARCHIVED and no other format was patched, and
\* a file record of the item was patched to CLOSED exactly when it is on a
\* target archive storage and its status was MISSING.
C12_FixMetadataEffects ==
  CleanLiveFix =>
    \A n \in DOMAIN ToFix :
      LET id == ToFix[n].id
          recs == hist[run].recs[id]
          fmts == remoteFormats[id]
      IN /\ PatchedOk("PATCH asset", id, id)
         /\ assetStatus[id] = "ARCHIVED"
         /\ \A f \in DOMAIN fmts :
              /\ PatchedOk("PATCH format", id, fmts[f].id)
                   <=> hist[run].fmt[id][fmts[f].id] # "ARCHIVED"
              /\ fmtStatus[id][fmts[f].id] = "ARCHIVED"
         /\ \A i \in DOMAIN recs :
              /\ Attempted("PATCH file", id, recs[i].id)
                   <=> (i \in TargetPlacements(id) /\ recs[i].status = "MISSING")
              /\ remoteFiles[id][i].status =
                   IF i \in TargetPlacements(id) THEN "CLOSED" ELSE recs[i].status

\* an item with a CLOSED placement whose file is on the mount and a MISSING
\* placement whose file is not: only the second one is patched
C12_Witness ==
  /\ CleanLiveFix /\ run = 1
  /\ Len(ToFix) >= 1 /\ ToFix[1].id = "a1"
  /\ Len(hist[1].recs["a1"]) = 2
  /\ PatchedOk("PATCH file", "a1", "x2")
  /\ ~Attempted("PATCH file", "a1", "x1")
  /\ PatchedOk("PATCH format", "a1", "f1")

\* C13: after a live fix pass in which every request succeeded, an item whose
\* fetched status was ARCHIVING or FAILED_TO_ARCHIVE and that has no placement
\* on a target archive storage was classified reset_failed, and the item and
\* all of its formats are NOT_ARCHIVED.
C13_ResetItemAndAllComponents ==
  CleanLiveFix =>
    \A n \in DOMAIN classified :
      LET id == classified[n].id IN
      (hist[run].asset[id] \in {"ARCHIVING", "FAILED_TO_ARCHIVE"}
         /\ TargetPlacements(id) = {}) =>
        /\ classified[n].action = "reset_failed"
        /\ assetStatus[id] = "NOT_ARCHIVED"
        /\ \A f \in DOMAIN remoteFormats[id] :
             fmtStatus[id][remoteFormats[id][f].id] = "NOT_ARCHIVED"

TwoLivePasses == /\ tool = "fix" /\ run = 2 /\ pc = "done"
                 /\ fix[1] /\ live[1] /\ fix[2] /\ live[2]
AllOk(ws) == \A j \in DOMAIN ws : ws[j].ok

\* C18 as claimed: after a --fix --live pass in which every write succeeded,
\* a second --fix --live pass on the same candidates issues no write.
C18_SecondPassWritesNothing ==
  (TwoLivePasses /\ AllOk(writeLog[1])) => writeLog[2] = <<>>

\* C18 as amended: after a --fix --live pass in which every request, read or
\* write, succeeded, a second --fix --live pass on the same candidates
\* issues no write, whether or not its own requests succeed.
C18_SecondPassAfterCleanPass ==
  (TwoLivePasses /\ faultsIn[1] = 0) => writeLog[2] = <<>>

\* the first pass fixed one item and reset the other
C18_Witness ==
  /\ TwoLivePasses /\ faultsIn[1] = 0
  /\ \E i \in DOMAIN writeLog[1] : writeLog[1][i] = Wr("PATCH asset", "a1", "a1", TRUE)
  /\ \E i \in DOMAIN writeLog[1] : writeLog[1][i] = Wr("PATCH asset", "a2", "a2", TRUE)
  /\ assetStatus["a1"] = "ARCHIVED" /\ assetStatus["a2"] = "NOT_ARCHIVED"
  /\ Len(classified) = 2
  /\ writeLog[2] = <<>>

\* the decision of section 4.2 on given evidence
Decision(status, onTargetWithFile) ==
  IF onTargetWithFile THEN "fix_metadata"
  ELSE IF status \in {"FAILED_TO_ARCHIVE", "ARCHIVING"} THEN "reset_failed"
  ELSE "skip"
Fetched(c) == c.realStatus \notin {"FETCH_ERROR", "ARCHIVED"}

\* C19 as claimed: an item fetched with a status other than ARCHIVED is
\* fix_metadata when one of its placements is on a target archive storage and
\* the file of such a placement is on the mount, otherwise reset_failed when
\* the status is FAILED_TO_ARCHIVE or ARCHIVING, otherwise skip.
C19_DecisionOnPlacements ==
  tool = "fix" =>
    \A n \in DOMAIN classified :
      LET c == classified[n]
          recs == hist[run].recs[c.id]
      IN Fetched(c) =>
           c.action = Decision(hist[run].asset[c.id],
                               \E i \in TargetPlacements(c.id) : dstDisk[recs[i].path] > 0)

\* the placements of an item as classifyAsset obtained them: none when the
\* files request failed, and each on the storage as getStorage resolved it
Obtained(id) ==
  IF \E i \in DOMAIN readLog[run] : readLog[run][i] = Req("GET files", id, "ok")
    THEN hist[run].recs[id] ELSE <<>>

\* C19 as amended: the same decision, taken on the placements that were
\* obtained: a failed placements request counts as no placement, a failed
\* storage lookup as a storage that is not a target.
C19_DecisionOnEvidence ==
  tool = "fix" =>
    \A n \in DOMAIN classified :
      LET c == classified[n]
          recs == Obtained(c.id)
      IN Fetched(c) =>
           c.action = Decision(hist[run].asset[c.id],
                               \E i \in DOMAIN recs :
                                 /\ isTargetArchiveStorage(storageCache[recs[i].storage_id])
                                 /\ dstDisk[recs[i].path] > 0)

\* a FAILED_TO_ARCHIVE item on the archive storage with its file on the
\* mount is fix_metadata, not reset_failed; an ARCHIVING item without such a
\* placement is reset_failed
C19_Witness ==
  /\ tool = "fix" /\ Len(classified) = 2
  /\ classified[1].realStatus = "FAILED_TO_ARCHIVE"
  /\ classified[1].action = "fix_metadata"
  /\ classified[2].realStatus = "ARCHIVING"
  /\ classified[2].action = "reset_failed"

IsFailedRetire(w) == IsRetire(w) /\ ~w.ok

\* C17: in a live run whose only failures are failed deletions of a source
\* file set or of a source file, the deletion of every other source file set
\* and source file of the item is still attempted and the item is reported
\* done.
C17_RetireFailureIsWarning ==
  \A r \in Runs :
    (MigDone(r) /\ live[r] /\ Seen(writeLog[r], IsFailedRetire)
       /\ faultsIn[r] = Times(writeLog[r], IsFailedRetire)) =>
      /\ result[r].ret = "true"
      /\ \A i \in SourceSetsOf(r) :
           \E j \in DOMAIN writeLog[r] :
             /\ writeLog[r][j].op = "DELETE file_set"
             /\ writeLog[r][j].id = hist[r].sets[i].id
      /\ \A i \in SourceFilesOf(r) :
           \E j \in DOMAIN writeLog[r] :
             /\ writeLog[r][j].op = "unlink"
             /\ writeLog[r][j].id = hist[r].recs[MigItem][i].path

\* C20: whenever a live run has deleted a file from the source mount, the
\* file at the same path of the archive mount has the size the source file
\* had.
C20_DeleteOnlyWhenSameSize ==
  tool = "mig" =>
    \A r \in Runs :
      \A j \in DOMAIN writeLog[r] :
        Did(writeLog[r][j], "unlink") =>
          dstDisk[writeLog[r][j].id] = hist[r].src[writeLog[r][j].id]

ItemsOf(ws) == [i \in DOMAIN ws |-> ws[i].item]
AssetPatches(ws) == Filter(ws, {i \in DOMAIN ws : ws[i].op = "PATCH asset"})
\* invocation r ran to its end (it was not killed)
Ended(r) == (r < run \/ (r = run /\ pc = "done")) /\ result[r].last # "crashed"

\* C14: an invocation that is not killed calls archiveAsset on every id
\* given, once and in the order given, whatever the earlier calls returned or
\* threw, and its success and error counters add up to the number of ids;
\* the health check classifies every candidate once, in order, and with
\* --fix --live attempts the item PATCH of every fix_metadata item and then
\* of every reset_failed item, once and in order, whichever PATCHes failed.
C14_BatchNeverAborts ==
  /\ tool = "mig" =>
       \A r \in Runs :
         Ended(r) =>
           /\ attempts[r] = assetArgs
           /\ counts[r].success + counts[r].errors = Len(assetArgs)
  /\ (tool = "fix" /\ pc = "done") =>
       /\ Ids(classified) = Ids(unique)
       /\ LiveFixDone =>
            ItemsOf(AssetPatches(writeLog[run]))
              = Ids(fixMetadataOf(classified)) \o Ids(resetFailedOf(classified))

\* the first item of a batch threw, the second one was still migrated
C14_Witness ==
  /\ MigDone(1)
  /\ assetArgs = <<"a2", "a1">>
  /\ faultsIn[1] = 1
  /\ attempts[1] = assetArgs
  /\ counts[1] = [success |-> 1, errors |-> 1]
  /\ result[1].ret = "true"

\* ------------------------------------------------------------- the scan
DepthCap == 10
IsContents(q) == q.req \in {"GET contents 1", "GET contents 2", "GET contents 3+"}
PageNo(q) == IF q.req = "GET contents 1" THEN 1 ELSE IF q.req = "GET contents 2" THEN 2 ELSE 3
\* read i of invocation r was made for the root scanned last
InLastRoot(r, i) ==
  \A j \in (i + 1)..Len(readLog[r]) : readLog[r][j].req # "GET collection"
\* the position in invocation r's reads where the scan of the root that made
\* read i ended (0 while it is still under way)
RootEnd(r, i) ==
  LET later == {j \in (i + 1)..Len(readLog[r]) : readLog[r][j].req = "GET collection"}
  IN IF later # {} THEN FirstIdx(later) - 1
     ELSE IF r < run \/ pc # "scan" THEN Len(readLog[r])
     ELSE 0
NoRepeat(s) == \A i, j \in DOMAIN s : i # j => s[i] # s[j]
\* the items classifyAsset was called on in invocation r, in order: every
\* call begins with the request of the item (verify-collection-archive-health)
\* or of its file records (fix-collection-archive-status)
ClassifyCalls(r) ==
  Ids(Filter(readLog[r],
                {i \in DOMAIN readLog[r] :
                   readLog[r][i].req = IF tool = "fix" THEN "GET asset" ELSE "GET files"}))

\* C15: whatever the containers contain, the scan never has more than ten
\* nested calls below the call on the root.
C15_DepthAtMostTen == Len(stack) - 1 <= DepthCap

\* C11: in one invocation no item is classified twice and no item's status is
\* patched twice, however often the scan came across it.
C11_CandidateOnce ==
  \A r \in Runs :
    /\ NoRepeat(ClassifyCalls(r))
    /\ NoRepeat(ItemsOf(AssetPatches(writeLog[r])))

\* C16: when a page request fails, the scan goes on outside the container
\* whose page it was.  Of every page that was received, once the scan of its
\* root has ended: every collection listed on it had its first page
\* requested, the next page of the container was requested when there is
\* one, and (at the return of the root's scan) every asset listed on it as
\* not ARCHIVED is among the candidates; and an invocation that ended
\* requested the first page of every root.
C16_FailedPageAbandonsOnlyItsContainer ==
  /\ \A r \in Runs : \A i \in DOMAIN readLog[r] :
        LET q == readLog[r][i]
            last == RootEnd(r, i)
            page == PageOf(q.id, PageNo(q))
            Asked(req, id) == \E j \in (i + 1)..last :
                                readLog[r][j].req = req /\ readLog[r][j].id = id
        IN (tool \in {"fix", "fixcoll"} /\ IsContents(q) /\ q.resp = "ok" /\ last > 0) =>
             /\ \A n \in DOMAIN page :
                  page[n].object_type = "collections" => Asked("GET contents 1", page[n].id)
             /\ PagesOf(q.id) > PageNo(q) => Asked(PageReq(PageNo(q) + 1), q.id)
             /\ (r = run /\ pc = "scan" /\ stack = <<>> /\ InLastRoot(r, i)) =>
                  \A n \in DOMAIN page :
                    (page[n].object_type = "assets" /\ page[n].archive_status # "ARCHIVED")
                      => \E m \in DOMAIN results : results[m] = Candidate(page[n])
  /\ \A r \in Runs :
        (tool \in {"fix", "fixcoll"} /\ Ended(r)) =>
          \A n \in DOMAIN collectionArgs :
            \E j \in DOMAIN readLog[r] :
              readLog[r][j].req = "GET contents 1" /\ readLog[r][j].id = collectionArgs[n]
\* the first page of the nested collection c3 failed; a2, listed after it on
\* the parent's next page, and the second root were scanned all the same
C16_Witness ==
  /\ tool = "fix" /\ run = 1 /\ pc = "classify"
  /\ \E i \in DOMAIN readLog[1] :
       /\ readLog[1][i] = Req("GET contents 1", "c3", "error")
       /\ \E j \in (i + 1)..Len(readLog[1]) : readLog[1][j] = Req("GET contents 2", "c1", "ok")
       /\ \E j \in (i + 1)..Len(readLog[1]) : readLog[1][j] = Req("GET contents 1", "c2", "ok")
  /\ Ids(unique) = <<"a1", "a2">>

\* ---------------------------------------------------------- resumption
\* a format or file PATCH of invocation 1 that failed after the PATCH of its
\* item to ARCHIVED had succeeded
LeftBehind(w) ==
  /\ w.op \in {"PATCH format", "PATCH file"}
  /\ ~w.ok
  /\ \E j \in DOMAIN writeLog[1] : writeLog[1][j] = Wr("PATCH asset", w.item, w.item, TRUE)
  /\ hist[2].asset[w.item] = "ARCHIVED"

\* C21: when a live fix_metadata patched the item but a format or file PATCH
\* failed, a following --fix --live invocation whose requests all succeed
\* leaves that format ARCHIVED and that file record CLOSED.
C21_RerunCompletesFailedPatch ==
  (TwoLivePasses /\ faultsIn[2] = 0) =>
    \A i \in DOMAIN writeLog[1] :
      LET w == writeLog[1][i] IN
      LeftBehind(w) =>
        IF w.op = "PATCH format"
          THEN fmtStatus[w.item][w.id] = "ARCHIVED"
          ELSE \A n \in DOMAIN remoteFiles[w.item] :
                 remoteFiles[w.item][n].id = w.id
                   => remoteFiles[w.item][n].status = "CLOSED"

\* C24: every file record a live fix_metadata patches to CLOSED was, at the
\* start of the invocation, on a target archive storage, MISSING, and its own
\* file was on the archive mount.
C24_PendingFixOwnFileFound ==
  \A r \in 1..run : \A j \in DOMAIN writeLog[r] :
    LET w == writeLog[r][j]
        recs == hist[r].recs[w.item]
    IN (tool = "fix" /\ w.op = "PATCH file") =>
         \E n \in DOMAIN recs :
           /\ recs[n].id = w.id
           /\ isTargetArchiveStorage(StorageOf(recs[n].storage_id))
           /\ recs[n].status = "MISSING"
           /\ hist[r].dst[recs[n].path] > 0

\* ------------------------------------------------------ scan: candidates
\* the candidates of the pages received for the root scanned last in
\* invocation r: the listed assets whose listed status is not ARCHIVED
ListedCandidates(r) ==
  UNION {{Candidate(PageOf(readLog[r][i].id, PageNo(readLog[r][i]))[n]) :
            n \in {m \in DOMAIN PageOf(readLog[r][i].id, PageNo(readLog[r][i])) :
                     LET item == PageOf(readLog[r][i].id, PageNo(readLog[r][i]))[m]
                     IN item.object_type = "assets" /\ ListedStatus(item) # "ARCHIVED"}} :
         i \in {j \in DOMAIN readLog[r] :
                  IsContents(readLog[r][j]) /\ readLog[r][j].resp = "ok" /\ InLastRoot(r, j)}}

\* C25: when the scan of a root returns, its candidates are exactly the
\* assets listed with a status other than ARCHIVED (a listing without a
\* status counts as UNKNOWN) on the pages that were received; no item listed
\* as ARCHIVED is ever a candidate.
C25_CandidateIffListedNotArchived ==
  /\ (tool \in {"fix", "fixcoll"} /\ pc = "scan" /\ stack = <<>>) =>
       {results[m] : m \in DOMAIN results} = ListedCandidates(run)
  /\ \A m \in DOMAIN results : results[m].collectionStatus # "ARCHIVED" /\ results[m].id # "a3"
  /\ \A m \in DOMAIN unique : unique[m].collectionStatus # "ARCHIVED" /\ unique[m].id # "a3"
\* the second root's page was received: a2, listed without a status, is a
\* candidate and a3, listed as ARCHIVED, is not
C25_Witness ==
  /\ tool \in {"fix", "fixcoll"} /\ pc = "scan" /\ stack = <<>> /\ root = 2
  /\ results = <<[id |-> "a2", collectionStatus |-> "UNKNOWN"]>>

\* ------------------------------------------------------ scan: pagination
RECURSIVE ReachFrom(_)
\* the collections reachable from the set S through the listings
ReachFrom(S) ==
  LET Listed == S \cup {d \in CollIds :
                          \E c \in S : \E p \in DOMAIN contents[c] :
                            \E n \in DOMAIN contents[c][p] :
                              /\ contents[c][p][n].object_type = "collections"
                              /\ contents[c][p][n].id = d}
  IN IF Listed = S THEN S ELSE ReachFrom(Listed)
Reachable == ReachFrom({collectionArgs[n] : n \in DOMAIN collectionArgs})
ContentsReads(r) == Filter(readLog[r], {i \in DOMAIN readLog[r] : IsContents(readLog[r][i])})
ScanOver(r) == tool \in {"fix", "fixcoll"} /\ collectionArgs # <<>> /\ Ended(r)
                 /\ faultsIn[r] = 0

RECURSIVE VisitPages(_, _)
RECURSIVE VisitEntries(_, _, _)
\* the page requests of one visit of collection c from page p on, every
\* request succeeding: the page, then for each of its entries in order the
\* whole visit of a child collection, then the next page while there is one
VisitPages(c, p) ==
  <<Req(PageReq(p), c, "ok")>> \o VisitEntries(c, p, 1)
     \o (IF PagesOf(c) > p THEN VisitPages(c, p + 1) ELSE <<>>)
VisitEntries(c, p, n) ==
  IF n > Len(PageOf(c, p)) THEN <<>>
  ELSE (IF PageOf(c, p)[n].object_type = "collections"
          THEN VisitPages(PageOf(c, p)[n].id, 1) ELSE <<>>)
       \o VisitEntries(c, p, n + 1)
RECURSIVE VisitRoots(_)
VisitRoots(n) ==
  IF n > Len(collectionArgs) THEN <<>>
  ELSE VisitPages(collectionArgs[n], 1) \o VisitRoots(n + 1)

StorageIds == {"arch", "deep", "work"}
IsLookup(q, id) == q.req = "GET storage" /\ q.id = id
\* no storage was requested twice in an invocation, and every cache entry is
\* the outcome of the request made for it
CachedOnce ==
  /\ \A r \in 1..run : \A id \in StorageIds :
       Times(readLog[r], LAMBDA q : IsLookup(q, id)) <= 1
  /\ \A id \in DOMAIN storageCache :
       \E j \in DOMAIN readLog[run] :
         /\ IsLookup(readLog[run][j], id)
         /\ storageCache[id] = IF readLog[run][j].resp = "ok" THEN StorageOf(id)
                               ELSE NullStorage
\* every lookup made in the invocation has its entry in the cache
LookupsKept ==
  \A j \in DOMAIN readLog[run] : \A id \in StorageIds :
    IsLookup(readLog[run][j], id) => id \in DOMAIN storageCache

\* C28: in an invocation at most one request is made per storage id; the
\* cache holds the outcome of that request, null when it failed; the entry
\* of a request made is never changed or removed while the invocation lasts
\* (it is there, with the outcome of that one request, in every later state).
C28_OneLookupPerStorage == CachedOnce /\ LookupsKept
\* the lookup of a storage failed once and was answered from the cache for
\* the item's second file record on that storage
C28_Witness ==
  /\ \E id \in DOMAIN storageCache :
       /\ storageCache[id] = NullStorage
       /\ Times(readLog[run], LAMBDA q : IsLookup(q, id)) = 1
  /\ \E n \in DOMAIN classified :
       /\ Len(classified[n].storages) = 2
       /\ classified[n].storages[1][1] = NullStorage
       /\ classified[n].storages[2][1] = NullStorage

\* ------------------------------------------------------ steps 5 and 6
\* storage id was looked up with success in invocation r and is neither the
\* destination nor of purpose ARCHIVE
ResolvedSource(r, id) ==
  /\ id # archiveStorageId
  /\ StorageOf(id).purpose # "ARCHIVE"
  /\ \E j \in DOMAIN readLog[r] : readLog[r][j] = Req("GET storage", id, "ok")

\* C23: every file set the migration asks to delete, and every file it
\* unlinks from the source mount, belongs to the item in hand (a file set of
\* the item, the path of one of its file records) and is on a storage that
\* was looked up with success and is neither the destination nor of purpose
\* ARCHIVE.
C23_RetiresOnlyResolvedSources ==
  \A r \in 1..run : \A j \in DOMAIN writeLog[r] :
    LET w == writeLog[r][j]
        sets == IF w.item = MigItem THEN hist[r].sets ELSE <<>>
        recs == hist[r].recs[w.item]
    IN /\ w.op = "DELETE file_set" =>
            \E n \in DOMAIN sets :
              sets[n].id = w.id /\ ResolvedSource(r, sets[n].storage_id)
       /\ w.op = "unlink" =>
            \E n \in DOMAIN recs :
              recs[n].path = w.id /\ ResolvedSource(r, recs[n].storage_id)
\* the item's file set on the working storage was deleted; its file on the
\* other archive-purpose storage is still on the source mount at the end
C23_Witness ==
  /\ tool = "mig" /\ run = 1 /\ pc = "done" /\ result[1].ret = "true"
  /\ \E j \in DOMAIN writeLog[1] : writeLog[1][j] = Wr("DELETE file_set", MigItem, "ws1", TRUE)
  /\ \E n \in DOMAIN hist[1].recs[MigItem] : hist[1].recs[MigItem][n].storage_id = "deep"
  /\ srcDisk["q"] > 0

\* the storages that discoverSourceStorages admits from the item's own file
\* records, every lookup succeeding
OwnSourceStorages(r, item) ==
  {hist[r].recs[item][n].storage_id : n \in DOMAIN hist[r].recs[item]}
    \cap {id \in StorageIds : IsSourceStorage(StorageOf(id), id)}

\* C22: what the migration deletes for an item does not depend on the items
\* processed before it: every file set it asks to delete is on a storage
\* that the item's own file records name, as when the item is processed
\* first or alone.
C22_DeletesIndependentOfEarlierItems ==
  \A r \in 1..run : \A j \in DOMAIN writeLog[r] :
    LET w == writeLog[r][j]
        sets == IF w.item = MigItem THEN hist[r].sets ELSE <<>>
    IN (tool = "mig" /\ w.op = "DELETE file_set") =>
         \E n \in DOMAIN sets :
           sets[n].id = w.id /\ sets[n].storage_id \in OwnSourceStorages(r, w.item)

\* ------------------------------------------------ classification failures
Actions == {"fix_metadata", "reset_failed", "stale_cache", "skip"}
FailedFor(req, id) ==
  \E i \in DOMAIN readLog[run] : readLog[run][i] = Req(req, id, "error")

\* C29: every candidate gets a classification with one of the four actions.
\* A failed item request gives skip with status FETCH_ERROR and nothing else
\* is requested for the item; a failed files request leaves no placement
\* evidence, a failed storage lookup a storage that is no target, a failed
\* formats request no formats; and the action is still the decision on the
\* evidence the classification holds.
C29_ClassificationNeverFails ==
  tool = "fix" =>
    /\ Len(classified) <= Len(unique)
    /\ pc \in {"fix_metadata", "reset_failed", "done"} => Len(classified) = Len(unique)
    /\ \A n \in DOMAIN classified :
         LET c == classified[n] IN
         /\ c.id = unique[n].id
         /\ c.action \in Actions
         /\ FailedFor("GET asset", c.id) =>
              /\ c.action = "skip" /\ c.realStatus = "FETCH_ERROR"
              /\ \A i \in DOMAIN readLog[run] :
                   readLog[run][i].id = c.id => readLog[run][i].req = "GET asset"
         /\ FailedFor("GET files", c.id) =>
              c.storages = <<>> /\ ~c.onArchive /\ c.fileUpdates = <<>>
         /\ \A i \in DOMAIN c.storages :
              c.storages[i][1] = NullStorage =>
                hist[run].recs[c.id][i].id \notin {c.fileUpdates[m] : m \in DOMAIN c.fileUpdates}
         /\ FailedFor("GET formats", c.id) => c.formatIds = <<>>
         /\ Fetched(c) => c.action = Classify(c.realStatus, c.onArchive, c.archiveFileExists)
\* the formats request of an item failed: the item is fix_metadata all the
\* same, with no format to patch
C29_Witness ==
  /\ tool = "fix"
  /\ \E n \in DOMAIN classified :
       /\ FailedFor("GET formats", classified[n].id)
       /\ classified[n].action = "fix_metadata"
       /\ classified[n].formatIds = <<>>
       /\ classified[n].fileUpdates # <<>>

\* ---- windowed processing (fix-orphaned-with-sizes-parallel)
WindowOf(p) == (p - 1) \div CONCURRENCY
InFlight == {p \in DOMAIN task : task[p].at \notin {"idle", "done"}}

\* C27: with window size 10, the items of a window are started together, an
\* item of a later window is started only when every item of the windows
\* before it has finished, at most 10 items are in flight at any time, and
\* every input position is processed exactly once.
C27_WindowedProcessing ==
  tool = "orphans" =>
    /\ Cardinality(InFlight) <= CONCURRENCY
    /\ \A p, q \in DOMAIN task :
         /\ WindowOf(p) = WindowOf(q) => (task[p].at = "idle" <=> task[q].at = "idle")
         /\ WindowOf(p) < WindowOf(q) /\ task[q].at # "idle" => task[p].at = "done"
    /\ \A p \in DOMAIN task :
         task[p].calls = IF task[p].at = "idle" THEN 0 ELSE 1
    /\ pc = "done" => \A p \in DOMAIN task : task[p].at = "done"
\* the second window is in flight after a first window of ten
C27_Witness ==
  /\ tool = "orphans"
  /\ \E q \in InFlight : WindowOf(q) = 1
  /\ Cardinality({p \in DOMAIN task : WindowOf(p) = 0 /\ task[p].at = "done"})
       = CONCURRENCY

\* ---- the shared statistics (fix-orphaned-with-sizes-parallel)
Counters(st) == [orphanedCount |-> st.orphanedCount, fixedCount |-> st.fixedCount,
                 sizeUpdatedCount |-> st.sizeUpdatedCount,
                 notFoundCount |-> st.notFoundCount, errors |-> Len(st.errors)]
Plus(c, d) == [f \in DOMAIN c |-> c[f] + d[f]]
One(fields) == [f \in DOMAIN Counters(NoStats) |-> IF f \in fields THEN 1 ELSE 0]
FailedWrite(a, id) ==
  \E j \in DOMAIN writeLog[1] :
    writeLog[1][j].item = a /\ writeLog[1][j].id = id /\ ~writeLog[1][j].ok
\* what one file set adds to the counters when its asset is processed by
\* itself on the records the script started with
AloneSet(a, fs) ==
  LET mine == {j \in DOMAIN FilesAtStart(a) : FilesAtStart(a)[j].file_set_id = fs.id}
  IN IF fs.storage_id # mortarStorageId THEN One({})
     ELSE IF mine = {}
       THEN IF ~OnMount(fs.name) THEN One({"orphanedCount", "notFoundCount"})
            ELSE IF live[1] /\ FailedWrite(a, fs.id) THEN One({"orphanedCount", "errors"})
            ELSE One({"orphanedCount", "fixedCount", "sizeUpdatedCount"})
     ELSE IF FilesAtStart(a)[FirstIdx(mine)].size = 0 /\ OnMount(fs.name)
             /\ getFileSize(fs.name) > 0
       THEN IF live[1] /\ FailedWrite(a, fs.id) THEN One({"errors"})
            ELSE One({"sizeUpdatedCount"})
     ELSE One({})
RECURSIVE AloneFrom(_, _)
AloneFrom(a, n) ==
  IF n > Len(AssetFileSets(a)) THEN One({})
  ELSE Plus(AloneSet(a, AssetFileSets(a)[n]), AloneFrom(a, n + 1))
Alone(p) == IF task[p].threw THEN One({}) ELSE AloneFrom(assetIds[p], 1)
RECURSIVE SumAlone(_)
SumAlone(p) == IF p = 0 THEN One({}) ELSE Plus(SumAlone(p - 1), Alone(p))

\* C30: when the script has finished, each counter of the shared statistics
\* (orphaned, fixed, size-updated, not-found, errors) is the sum over the input
\* positions of what the item there adds when it is processed alone,
\* whatever the order in which the requests of a window came back.
C30_CountersAreSumOfAlone ==
  Orphans("done") => Counters(stats) = SumAlone(Len(assetIds))

====
